---- MODULE Spec2Model ----
(***************************************************************************)
(* Model of yellowstone-grpc-geyser/src/grpc.rs and of the producer store  *)
(* and monitor of yellowstone_log/consumer_group/producer.rs.              *)
(*                                                                         *)
(*   Spec         the Broadcast Loop (GrpcService::geyser_loop)            *)
(*   SpecAccounts the Broadcast Loop on slot and account messages          *)
(*   SpecBlocks   the Broadcast Loop on slot, transaction and block-meta   *)
(*                messages                                                 *)
(*   SpecReplay   the Broadcast Loop on one account and one transaction    *)
(*                index, with a longer run of events                       *)
(*   SpecSession  one Subscriber Session (GrpcService::subscribe and       *)
(*                GrpcService::client_loop) on the Fan-out Bus             *)
(*   SpecBatch    the Broadcast Loop's processed batch: transactions and   *)
(*                slot updates of one slot, enough to fill the batch       *)
(*   SpecCache    the Block-Meta Cache (BlockMetaStorage) from its         *)
(*                creation, with the point queries                         *)
(*   SpecWarm     the Block-Meta Cache after MAX_RECENT_BLOCKHASHES + 32   *)
(*                slots were registered, with is_blockhash_valid           *)
(*   SpecSelect   get_producer_id_with_least_assigned_consumer on every    *)
(*                answer of etcd and of the database                       *)
(*   SpecMonitor  get_producer_dead_signal, its task and its signal, with  *)
(*                the lock and the watch stream of one producer            *)
(*   SpecForward  the Broadcast Loop with the writer task of the cache at  *)
(*                the other end of blocks_meta_tx                          *)
(*   SpecTasks    the three tasks of one Subscriber Session (client_loop,  *)
(*                ping, reader) under fair scheduling                      *)
(*   SpecBus      the Broadcast Loop with one Subscriber Session on the    *)
(*                receiving end of the broadcast                           *)
(***************************************************************************)
EXTENDS Integers, Sequences, FiniteSets, TLC

\* ------------------------------------------------------------------ bounds
MaxEvents == 4
MaxSlot == 2
MaxWriteVersion == 2
MaxTxIndex == 1
MaxTxCount == 2
MaxReplayEvents == 5
MaxBatches == 3
MaxPings == 1
MaxRequests == 2
MaxBatchEvents == 33
MaxBatchPublished == 2
MaxStorageSlot == 3
MaxBlockhash == 1
MaxApplied == 3
MaxCommitment == 3
WarmBase == 400
MaxWarmSlot == 3
MaxWarmApplied == 3
MaxProducer == 3
MaxSeenSlot == 2
MaxConsumers == 1
MaxDeletes == 2
MaxForwardEvents == 3
MaxTaskRequests == 1
MaxBusEvents == 3
\* config.channel_capacity: the length of the outbound queue and of the
\* broadcast backlog
ChannelCapacity == 2

\* ------------------------------------------------------- program constants
PROCESSED_MESSAGES_MAX == 31
KEEP_SLOTS == 3
\* solana_sdk::clock::MAX_RECENT_BLOCKHASHES
MAX_RECENT_BLOCKHASHES == 300

Slots == 1..MaxSlot
Pubkeys == {"P", "Q"}
WriteVersions == 1..MaxWriteVersion
TxIndexes == 0..MaxTxIndex
TxCounts == 0..MaxTxCount
CommitmentLevel == {"Processed", "Confirmed", "Finalized"}

VARIABLES
    \* geyser_loop
    transactions,        \* BTreeMap slot -> (Option<MessageBlockMeta>, Vec<MessageTransactionInfo>)
    messages,            \* HashMap slot -> (Vec<Option<Message>>, HashMap<Pubkey, (u64, usize)>)
    processed_messages,  \* Vec<Message> awaiting publication at Processed
    published,           \* every (CommitmentLevel, Vec<Message>) given to broadcast_tx.send, in order
    blocks_meta_tx,      \* every message given to blocks_meta_tx.send, in order
    invalid_full_blocks, \* INVALID_FULL_BLOCKS counter
    ingested,            \* every message received from messages_rx, in order
    \* one subscriber session: subscribe and client_loop
    filter,              \* client_loop's filter
    client_rx,           \* control channel: Option<Filter> sent and not yet received
    client_rx_open,      \* FALSE once client_loop returned and dropped client_rx
    stream,              \* outbound queue: items sent on stream_tx and not yet taken
    stream_open,         \* FALSE once the ReceiverStream was dropped
    sent,                \* every item enqueued on the outbound queue, in order
    delivered,           \* every item the transport took from the outbound queue
    lagged_task,         \* the task spawned to send Err(lagged): none, pending, done
    exit,                \* the AtomicBool shared by the three tasks
    dispatch,            \* client_loop: where it is, and the batch it iterates
    cursor,              \* batches of `published` this session's receiver has passed
    broadcast_open,      \* FALSE once every broadcast::Sender was dropped
    ping_pc,             \* the ping task: check, sleep, done
    pings,               \* pings attempted
    reader_pc,           \* the reader task: check, message, send; returned: eof, done
    requests,            \* inbound messages read
    \* BlockMetaStorage
    storage,             \* BlockMetaStorageInner: blocks, blockhashes, the three cursors
    writer_alive,        \* FALSE once the task that writes the storage panicked
    overflow_checks,     \* the build: TRUE when integer overflow panics, FALSE when it wraps
    applied,             \* messages the writer task handled
    written,             \* the message it handled last
    response,            \* the response to the last point query since the storage changed
    \* ScyllaProducerStore::get_producer_id_with_least_assigned_consumer
    queries,             \* what etcd and the database answer to the queries of the call
    selection,           \* the call: its arguments and, once it returned, its result
    \* EtcdProducerMonitor::get_producer_dead_signal, for one producer
    lock,                \* TRUE while the producer's lock key is in etcd
    deletes,             \* deletions of the lock so far
    watch_state,         \* the watch: closed (not opened yet), open, failed, cancelled
    watch_stream,        \* watch responses not yet taken by stream.next()
    events,              \* Delete events the watch recorded
    monitor_pc,          \* the call: watch, get; returned, panicked
    get_count,           \* get_resp.count(), -1 before the lookup
    signal_tx,           \* tx, the oneshot sender of the signal: none, held, sent, dropped
    signal,              \* the ProducerDeadSignal: none, pending, ok, err, dropped
    task_pc,             \* the spawned task: none, select, done, panicked
    sends                \* tx.send(()) calls that returned Ok

loopVars == <<transactions, messages, processed_messages, published, blocks_meta_tx,
              invalid_full_blocks, ingested>>

sessionVars == <<filter, client_rx, client_rx_open, stream, stream_open, sent, delivered,
                 lagged_task, exit, dispatch, cursor, broadcast_open, ping_pc, pings,
                 reader_pc, requests>>

storageVars == <<storage, writer_alive, overflow_checks, applied, written, response>>

monitorVars == <<lock, deletes, watch_state, watch_stream, events, monitor_pc, get_count,
                 signal_tx, signal, task_pc, sends>>

producerVars == <<queries, selection, monitorVars>>

vars == <<loopVars, sessionVars, storageVars, producerVars>>

\* ---------------------------------------------------------------- messages
\* Option::None of Vec<Option<Message>> and of Option<MessageBlockMeta>
None == [type |-> "None"]

\* `id` stands for the payload of the message (account data, signature, ...):
\* it tells two messages with equal keys apart.
MessageSlot(slot, status, id) ==
    [type |-> "Slot", slot |-> slot, status |-> status, id |-> id]

MessageAccount(slot, pubkey, write_version, id) ==
    [type |-> "Account",
     slot |-> slot,
     id |-> id,
     pubkey |-> pubkey,
     write_version |-> write_version]

MessageTransactionInfo(index, id) == [id |-> id, index |-> index]

MessageTransaction(slot, index, id) ==
    [type |-> "Transaction",
     slot |-> slot,
     id |-> id,
     transaction |-> MessageTransactionInfo(index, id)]

MessageBlockMeta(slot, executed_transaction_count, id) ==
    [type |-> "BlockMeta",
     slot |-> slot,
     id |-> id,
     executed_transaction_count |-> executed_transaction_count]

MessageBlock(block_meta, txs) ==
    [transactions |-> txs,
     type |-> "Block",
     slot |-> block_meta.slot,
     meta |-> block_meta]

\* ----------------------------------------------------------------- helpers
EmptyMap == [k \in {} |-> None]

MapInsert(map, key, value) ==
    [k \in DOMAIN map \cup {key} |-> IF k = key THEN value ELSE map[k]]

MapRemove(map, key) == [k \in DOMAIN map \ {key} |-> map[k]]

MapRetain(map, keep) == [k \in DOMAIN map \cap keep |-> map[k]]

MinKey(keys) == CHOOSE k \in keys : \A j \in keys : k <= j

Range(seq) == {seq[i] : i \in DOMAIN seq}

\* entry.0.iter().filter_map(|x| x.clone()).collect()
FilterMap(vec) == SelectSeq(vec, LAMBDA x : x.type # "None")

Batch(commitment, msgs) == [messages |-> msgs, commitment |-> commitment]

\* ------------------------------------------------ process_message!: slots
\* faulty variant: the Confirmed payload is taken out of the accumulator, not cloned
SlotPayloads_ConfirmedTakes(msgs, slot) ==
    CASE slot.status = "Processed" ->
           [messages |-> msgs, confirmed |-> <<>>, finalized |-> <<>>]
      [] slot.status = "Confirmed" ->
           [messages |-> MapRemove(msgs, slot.slot),
            confirmed |-> IF slot.slot \in DOMAIN msgs
                          THEN FilterMap(msgs[slot.slot].vec) ELSE <<>>,
            finalized |-> <<>>]
      [] slot.status = "Finalized" ->
           LET retained == MapRetain(msgs, {k \in DOMAIN msgs : k >= slot.slot})
           IN  [messages |-> MapRemove(retained, slot.slot),
                confirmed |-> <<>>,
                finalized |-> IF slot.slot \in DOMAIN retained
                              THEN FilterMap(retained[slot.slot].vec) ELSE <<>>]

\* faulty variant: a Finalized slot leaves the entries of the slots below it
SlotPayloads_NoEviction(msgs, slot) ==
    CASE slot.status = "Processed" ->
           [messages |-> msgs, confirmed |-> <<>>, finalized |-> <<>>]
      [] slot.status = "Confirmed" ->
           [messages |-> msgs,
            confirmed |-> IF slot.slot \in DOMAIN msgs
                          THEN FilterMap(msgs[slot.slot].vec) ELSE <<>>,
            finalized |-> <<>>]
      [] slot.status = "Finalized" ->
           [messages |-> MapRemove(msgs, slot.slot),
            confirmed |-> <<>>,
            finalized |-> IF slot.slot \in DOMAIN msgs
                          THEN FilterMap(msgs[slot.slot].vec) ELSE <<>>]

\* faulty variant: a Finalized slot drops its own entry without streaming it
SlotPayloads_FinalizedUnstreamed(msgs, slot) ==
    CASE slot.status = "Processed" ->
           [messages |-> msgs, confirmed |-> <<>>, finalized |-> <<>>]
      [] slot.status = "Confirmed" ->
           [messages |-> msgs,
            confirmed |-> IF slot.slot \in DOMAIN msgs
                          THEN FilterMap(msgs[slot.slot].vec) ELSE <<>>,
            finalized |-> <<>>]
      [] slot.status = "Finalized" ->
           [messages |-> MapRetain(msgs, {k \in DOMAIN msgs : k > slot.slot}),
            confirmed |-> <<>>,
            finalized |-> <<>>]

SlotPayloads(msgs, slot) ==
    CASE slot.status = "Processed" ->
           [messages |-> msgs, confirmed |-> <<>>, finalized |-> <<>>]
      [] slot.status = "Confirmed" ->
           [messages |-> msgs,
            confirmed |-> IF slot.slot \in DOMAIN msgs
                          THEN FilterMap(msgs[slot.slot].vec) ELSE <<>>,
            finalized |-> <<>>]
      [] slot.status = "Finalized" ->
           LET retained == MapRetain(msgs, {k \in DOMAIN msgs : k >= slot.slot})
           IN  [messages |-> MapRemove(retained, slot.slot),
                confirmed |-> <<>>,
                finalized |-> IF slot.slot \in DOMAIN retained
                              THEN FilterMap(retained[slot.slot].vec) ELSE <<>>]

\* faulty variant: the Confirmed and Finalized batches are sent only at their own status
ProcessSlot_OwnStatusOnly(st, message) ==
    LET p == SlotPayloads(st.messages, message)
    IN  [messages |-> p.messages,
         processed_messages |-> <<>>,
         published |-> st.published \o
            << Batch("Processed", Append(st.processed_messages, message)) >> \o
            (IF message.status = "Confirmed"
             THEN << Batch("Confirmed", Append(p.confirmed, message)) >> ELSE <<>>) \o
            (IF message.status = "Finalized"
             THEN << Batch("Finalized", Append(p.finalized, message)) >> ELSE <<>>)]

\* faulty variant: a slot message starts the Processed batch anew
ProcessSlot_DropsPending(st, message) ==
    LET p == SlotPayloads(st.messages, message)
    IN  [messages |-> p.messages,
         processed_messages |-> <<>>,
         published |-> st.published \o
            << Batch("Processed", <<message>>),
               Batch("Confirmed", Append(p.confirmed, message)),
               Batch("Finalized", Append(p.finalized, message)) >>]

ProcessSlot(st, message) ==
    LET p == SlotPayloads(st.messages, message)
    IN  [messages |-> p.messages,
         processed_messages |-> <<>>,
         published |-> st.published \o
            << Batch("Processed", Append(st.processed_messages, message)),
               Batch("Confirmed", Append(p.confirmed, message)),
               Batch("Finalized", Append(p.finalized, message)) >>]

\* --------------------------------------------- process_message!: non-slots
\* faulty variant: an equal write_version replaces the recorded account too
RecordMessage_ReplaceOnEqual(entry, message) ==
    IF message.type = "Account"
    THEN LET write_version == message.write_version
             index == Len(entry.vec)
         IN  IF message.pubkey \in DOMAIN entry.map
             THEN LET prev == entry.map[message.pubkey]
                  IN  IF prev[1] <= write_version
                      THEN [map |-> [entry.map EXCEPT
                                       ![message.pubkey] = <<write_version, index>>],
                            vec |-> Append([entry.vec EXCEPT ![prev[2] + 1] = None],
                                           message)]
                      ELSE entry
             ELSE [map |-> MapInsert(entry.map, message.pubkey,
                                     <<write_version, index>>),
                   vec |-> Append(entry.vec, message)]
    ELSE [map |-> entry.map, vec |-> Append(entry.vec, message)]

\* faulty variant: a replacing account is written over the one it replaces
RecordMessage_InPlace(entry, message) ==
    IF message.type = "Account"
    THEN LET write_version == message.write_version
             index == Len(entry.vec)
         IN  IF message.pubkey \in DOMAIN entry.map
             THEN LET prev == entry.map[message.pubkey]
                  IN  IF prev[1] < write_version
                      THEN [map |-> [entry.map EXCEPT
                                       ![message.pubkey] = <<write_version, prev[2]>>],
                            vec |-> [entry.vec EXCEPT ![prev[2] + 1] = message]]
                      ELSE entry
             ELSE [map |-> MapInsert(entry.map, message.pubkey,
                                     <<write_version, index>>),
                   vec |-> Append(entry.vec, message)]
    ELSE [map |-> entry.map, vec |-> Append(entry.vec, message)]

\* faulty variant: a replaced account keeps the place of the one it replaced
\* in the map
RecordMessage_StaleIndex(entry, message) ==
    IF message.type = "Account"
    THEN LET write_version == message.write_version
             index == Len(entry.vec)
         IN  IF message.pubkey \in DOMAIN entry.map
             THEN LET prev == entry.map[message.pubkey]
                  IN  IF prev[1] < write_version
                      THEN [map |-> [entry.map EXCEPT
                                       ![message.pubkey] = <<write_version, prev[2]>>],
                            vec |-> Append([entry.vec EXCEPT ![prev[2] + 1] = None],
                                           message)]
                      ELSE entry
             ELSE [map |-> MapInsert(entry.map, message.pubkey,
                                     <<write_version, index>>),
                   vec |-> Append(entry.vec, message)]
    ELSE [map |-> entry.map, vec |-> Append(entry.vec, message)]

\* the per-slot (vec, map) entry after `message` is recorded in it
RecordMessage(entry, message) ==
    IF message.type = "Account"
    THEN LET write_version == message.write_version
             index == Len(entry.vec)
         IN  IF message.pubkey \in DOMAIN entry.map
             THEN LET prev == entry.map[message.pubkey]
                  IN  IF prev[1] < write_version
                      THEN [map |-> [entry.map EXCEPT
                                       ![message.pubkey] = <<write_version, index>>],
                            vec |-> Append([entry.vec EXCEPT ![prev[2] + 1] = None],
                                           message)]
                      ELSE entry
             ELSE [map |-> MapInsert(entry.map, message.pubkey,
                                     <<write_version, index>>),
                   vec |-> Append(entry.vec, message)]
    ELSE [map |-> entry.map, vec |-> Append(entry.vec, message)]

\* faulty variant: the pending batch is published when it exceeds the maximum
ProcessNonSlot_Above(st, message) ==
    LET pushed == Append(st.processed_messages, message)
        full == Len(pushed) > PROCESSED_MESSAGES_MAX
        entry == IF message.slot \in DOMAIN st.messages
                 THEN st.messages[message.slot]
                 ELSE [map |-> EmptyMap, vec |-> <<>>]
    IN  [messages |-> MapInsert(st.messages, message.slot,
                                RecordMessage(entry, message)),
         processed_messages |-> IF full THEN <<>> ELSE pushed,
         published |-> IF full
                       THEN Append(st.published, Batch("Processed", pushed))
                       ELSE st.published]

\* process_message!: the non-slot branch
ProcessNonSlot(st, message) ==
    LET pushed == Append(st.processed_messages, message)
        full == Len(pushed) >= PROCESSED_MESSAGES_MAX
        entry == IF message.slot \in DOMAIN st.messages
                 THEN st.messages[message.slot]
                 ELSE [map |-> EmptyMap, vec |-> <<>>]
    IN  [messages |-> MapInsert(st.messages, message.slot,
                                RecordMessage(entry, message)),
         processed_messages |-> IF full THEN <<>> ELSE pushed,
         published |-> IF full
                       THEN Append(st.published, Batch("Processed", pushed))
                       ELSE st.published]

process_message(st, message) ==
    IF message.type = "Slot"
    THEN ProcessSlot(st, message)
    ELSE ProcessNonSlot(st, message)

\* ------------------------------------------------- block reconstruction
\* transactions after the message was collected into it
CollectBlock(txs, message) ==
    LET slot == message.slot
        entry == IF slot \in DOMAIN txs THEN txs[slot]
                 ELSE [transactions |-> <<>>, meta |-> None]
    IN  CASE message.type = "Transaction" ->
               MapInsert(txs, slot,
                   [entry EXCEPT !.transactions = Append(@, message.transaction)])
          [] message.type = "BlockMeta" ->
               MapInsert(txs, slot, [entry EXCEPT !.meta = message])
          [] OTHER -> txs

\* faulty variant: the block is taken when at least executed_transaction_count arrived
BlockComplete_AtLeast(txs, slot) ==
    /\ slot \in DOMAIN txs
    /\ txs[slot].meta.type # "None"
    /\ txs[slot].meta.executed_transaction_count <= Len(txs[slot].transactions)

\* Some((Some(block_meta), transactions))
\*     if block_meta.executed_transaction_count as usize == transactions.len()
BlockComplete(txs, slot) ==
    /\ slot \in DOMAIN txs
    /\ txs[slot].meta.type # "None"
    /\ txs[slot].meta.executed_transaction_count = Len(txs[slot].transactions)

\* faulty variant: the block takes the transactions and leaves the meta behind
TakeBlock_KeepsMeta(txs, slot) ==
    MapInsert(txs, slot, [txs[slot] EXCEPT !.transactions = <<>>])

\* transactions.remove(&slot): the block takes its entry out of the map
TakeBlock(txs, slot) == MapRemove(txs, slot)

\* position-preserving insertion: sort_by is a stable sort
InsertByIndex(sorted, tx) ==
    LET k == Cardinality({i \in DOMAIN sorted : sorted[i].index <= tx.index})
    IN  SubSeq(sorted, 1, k) \o <<tx>> \o SubSeq(sorted, k + 1, Len(sorted))

\* faulty variant: the transactions are left in arrival order
SortByIndex_Unsorted(txs) == txs

RECURSIVE SortByIndex(_)
SortByIndex(txs) ==
    IF txs = <<>> THEN <<>>
    ELSE InsertByIndex(SortByIndex(SubSeq(txs, 1, Len(txs) - 1)), txs[Len(txs)])

\* ------------------------------------------ remove outdated transactions
\* faulty variant: only the entries below the finalized slot are removed
RemoveOutdated_Below(txs, slot, invalid) ==
    [transactions |-> MapRetain(txs, {k \in DOMAIN txs : k >= slot}),
     invalid |-> invalid]

RECURSIVE RemoveOutdated(_, _, _)
RemoveOutdated(txs, slot, invalid) ==
    IF DOMAIN txs = {}
    THEN [transactions |-> txs, invalid |-> invalid]
    ELSE LET kslot == MinKey(DOMAIN txs)
         IN  IF kslot < slot
             THEN RemoveOutdated(MapRemove(txs, kslot), slot, invalid)
             ELSE IF kslot = slot
             THEN RemoveOutdated(MapRemove(txs, kslot), slot,
                      IF txs[kslot].meta.type # "None" THEN invalid + 1 ELSE invalid)
             ELSE [transactions |-> txs, invalid |-> invalid]

\* ------------------------------------------------------------ geyser_loop
\* Some(message) = messages_rx.recv()
Receive(message, limit) ==
    /\ Len(ingested) < limit
    /\ ingested' = Append(ingested, message)
    /\ blocks_meta_tx' = IF message.type \in {"Slot", "BlockMeta"}
                         THEN Append(blocks_meta_tx, message)
                         ELSE blocks_meta_tx
    /\ LET slot == message.slot
           collected == CollectBlock(transactions, message)
           complete == /\ message.type \in {"Transaction", "BlockMeta"}
                       /\ BlockComplete(collected, slot)
           st0 == [messages |-> messages,
                   processed_messages |-> processed_messages,
                   published |-> published]
           st1 == IF complete
                  THEN process_message(st0,
                           MessageBlock(collected[slot].meta,
                                        SortByIndex(collected[slot].transactions)))
                  ELSE st0
           taken == IF complete THEN TakeBlock(collected, slot) ELSE collected
           outdated == IF message.type = "Slot" /\ message.status = "Finalized"
                       THEN RemoveOutdated(taken, slot, 0)
                       ELSE [transactions |-> taken, invalid |-> 0]
           st2 == process_message(st1, message)
       IN  /\ transactions' = outdated.transactions
           /\ invalid_full_blocks' = invalid_full_blocks + outdated.invalid
           /\ messages' = st2.messages
           /\ processed_messages' = st2.processed_messages
           /\ published' = st2.published
    /\ UNCHANGED <<sessionVars, storageVars, producerVars>>

NextId == Len(ingested) + 1

ReceiveSlot ==
    \E slot \in Slots, status \in CommitmentLevel :
        Receive(MessageSlot(slot, status, NextId), MaxEvents)

ReceiveAccount ==
    \E slot \in Slots, pubkey \in Pubkeys, write_version \in WriteVersions :
        Receive(MessageAccount(slot, pubkey, write_version, NextId), MaxEvents)

ReceiveTransaction ==
    \E slot \in Slots, index \in TxIndexes :
        Receive(MessageTransaction(slot, index, NextId), MaxEvents)

ReceiveBlockMeta ==
    \E slot \in Slots, count \in TxCounts :
        Receive(MessageBlockMeta(slot, count, NextId), MaxEvents)

\* faulty variant: the timer publishes the pending batch and keeps it
ProcessedSleep_KeepsBatch ==
    /\ IF processed_messages # <<>>
       THEN /\ published' = Append(published, Batch("Processed", processed_messages))
            /\ UNCHANGED processed_messages
       ELSE UNCHANGED <<published, processed_messages>>
    /\ UNCHANGED <<transactions, messages, blocks_meta_tx, invalid_full_blocks, ingested>>
    /\ UNCHANGED <<sessionVars, storageVars, producerVars>>

\* () = &mut processed_sleep
ProcessedSleep ==
    /\ IF processed_messages # <<>>
       THEN /\ published' = Append(published, Batch("Processed", processed_messages))
            /\ processed_messages' = <<>>
       ELSE UNCHANGED <<published, processed_messages>>
    /\ UNCHANGED <<transactions, messages, blocks_meta_tx, invalid_full_blocks, ingested>>
    /\ UNCHANGED <<sessionVars, storageVars, producerVars>>

\* The same loop on a narrower stream of messages (one pubkey, one transaction
\* index, no block metadata) that is followed for longer.
ReplaySlot ==
    \E slot \in Slots, status \in CommitmentLevel :
        Receive(MessageSlot(slot, status, NextId), MaxReplayEvents)

ReplayAccount ==
    \E slot \in Slots, write_version \in WriteVersions :
        Receive(MessageAccount(slot, "P", write_version, NextId), MaxReplayEvents)

ReplayTransaction ==
    \E slot \in Slots :
        Receive(MessageTransaction(slot, 0, NextId), MaxReplayEvents)

\* The same loop on a long run of transactions of one slot, with few batches
\* published, so that the pending Processed batch fills up.
BatchTransaction ==
    /\ Len(published) < MaxBatchPublished
    /\ Receive(MessageTransaction(1, Len(ingested), NextId), MaxBatchEvents)

BatchSlot ==
    /\ Len(published) < MaxBatchPublished
    /\ \E status \in CommitmentLevel :
          Receive(MessageSlot(1, status, NextId), MaxBatchEvents)

\* ====================================================================
\* Subscriber Session: GrpcService::subscribe and GrpcService::client_loop
\* ====================================================================
\* A Filter is its commitment level and the kinds of message it yields an
\* update for.
Filter(commitment, accepts) == [commitment |-> commitment, accepts |-> accepts]

\* Filter::new of the empty SubscribeRequest: commitment None is Processed
EmptyFilter == Filter("Processed", {})

\* the SubscribeRequests a client sends that Filter::new accepts
Requests ==
    {Filter("Processed", {"Account", "Slot"}), Filter("Confirmed", {"Account"})}

get_commitment_level(f) == f.commitment

\* Some(update) or None
get_update(f, message) == message.type \in f.accepts

\* items of the outbound queue: TonicResult<SubscribeUpdate>
Update(message, batch) == [message |-> message, batch |-> batch, kind |-> "Update"]

Ping == [kind |-> "Ping"]

Error(status) == [status |-> status, kind |-> "Error"]

\* what the Broadcast Loop sends to this session's bus
BusBatches ==
    {<<MessageAccount(1, "P", 1, 1), MessageSlot(1, "Confirmed", 2)>>}

Selecting == [index |-> 0, batch |-> <<>>, pc |-> "select"]

Returned == [index |-> 0, batch |-> <<>>, pc |-> "done"]

\* mpsc::Sender::try_send on the outbound queue
TrySend(queue, open) ==
    IF ~open THEN "Closed"
    ELSE IF Len(queue) >= ChannelCapacity THEN "Full"
    ELSE "Ok"

\* client_tx.send: fails once client_rx was dropped
ClientSend(item) ==
    client_rx' = IF client_rx_open THEN Append(client_rx, item) ELSE client_rx

\* faulty variant: client_loop returns without exit.store(true)
Break_KeepsFlag ==
    /\ dispatch' = Returned
    /\ exit' = exit
    /\ client_rx_open' = FALSE
    /\ client_rx' = <<>>

\* break 'outer, then exit.store(true); client_rx is dropped on return
Break ==
    /\ dispatch' = Returned
    /\ exit' = TRUE
    /\ client_rx_open' = FALSE
    /\ client_rx' = <<>>

\* tokio::spawn(async move { stream_tx.send(Err(Status::internal("lagged"))).await })
SpawnLagged == lagged_task' = "pending"

Enqueue(item) ==
    /\ stream' = Append(stream, item)
    /\ sent' = Append(sent, item)

\* message = client_rx.recv(): Some(Some(filter_new)) and Some(None).
\* recv() never yields None: the ping task holds a client_tx until it returns,
\* and it returns only after exit was set or after it sent Some(None) itself.
DispatchControl ==
    /\ dispatch.pc = "select"
    /\ client_rx # <<>>
    /\ IF Head(client_rx).kind = "Some"
       THEN /\ filter' = Head(client_rx).filter
            /\ client_rx' = Tail(client_rx)
            /\ UNCHANGED <<dispatch, exit, client_rx_open>>
       ELSE /\ Break
            /\ UNCHANGED filter
    /\ UNCHANGED <<loopVars, storageVars, producerVars, stream, stream_open, sent, delivered,
                   lagged_task, cursor,
                   broadcast_open, ping_pc, pings, reader_pc, requests>>

\* the receiver missed batches: the backlog holds the last channel_capacity
Lagging == Len(published) - cursor > ChannelCapacity

\* faulty variant: the receiver yields the newest batch of the backlog
DispatchRecv_Newest ==
    /\ dispatch.pc = "select"
    /\ cursor < Len(published)
    /\ ~Lagging
    /\ cursor' = cursor + 1
    /\ LET batch == published[Len(published)]
       IN  dispatch' = IF batch.commitment = get_commitment_level(filter)
                       THEN [index |-> 1, batch |-> batch.messages, pc |-> "batch"]
                       ELSE Selecting
    /\ UNCHANGED <<loopVars, storageVars, producerVars, filter, client_rx, client_rx_open,
                   stream, stream_open, sent,
                   delivered, lagged_task, exit, broadcast_open, ping_pc, pings,
                   reader_pc, requests>>

\* faulty variant: the batch is iterated whatever its commitment
DispatchRecv_AnyCommitment ==
    /\ dispatch.pc = "select"
    /\ cursor < Len(published)
    /\ ~Lagging
    /\ cursor' = cursor + 1
    /\ LET batch == published[cursor + 1]
       IN  dispatch' = [index |-> 1, batch |-> batch.messages, pc |-> "batch"]
    /\ UNCHANGED <<loopVars, storageVars, producerVars, filter, client_rx, client_rx_open,
                   stream, stream_open, sent,
                   delivered, lagged_task, exit, broadcast_open, ping_pc, pings,
                   reader_pc, requests>>

\* message = messages_rx.recv(): Ok((commitment, messages))
DispatchRecv ==
    /\ dispatch.pc = "select"
    /\ cursor < Len(published)
    /\ ~Lagging
    /\ cursor' = cursor + 1
    /\ LET batch == published[cursor + 1]
       IN  dispatch' = IF batch.commitment = get_commitment_level(filter)
                       THEN [index |-> 1, batch |-> batch.messages, pc |-> "batch"]
                       ELSE Selecting
    /\ UNCHANGED <<loopVars, storageVars, producerVars, filter, client_rx, client_rx_open,
                   stream, stream_open, sent,
                   delivered, lagged_task, exit, broadcast_open, ping_pc, pings,
                   reader_pc, requests>>

\* faulty variant: an update that finds the outbound queue full is dropped
DispatchSend_DropOnFull ==
    /\ dispatch.pc = "batch"
    /\ LET message == dispatch.batch[dispatch.index]
           continue == IF dispatch.index < Len(dispatch.batch)
                       THEN [dispatch EXCEPT !.index = @ + 1]
                       ELSE Selecting
       IN  IF ~get_update(filter, message)
           THEN /\ dispatch' = continue
                /\ UNCHANGED <<stream, sent, lagged_task, exit, client_rx, client_rx_open>>
           ELSE CASE TrySend(stream, stream_open) = "Ok" ->
                       /\ Enqueue(Update(message, cursor))
                       /\ dispatch' = continue
                       /\ UNCHANGED <<lagged_task, exit, client_rx, client_rx_open>>
                  [] TrySend(stream, stream_open) = "Full" ->
                       /\ dispatch' = continue
                       /\ UNCHANGED <<stream, sent, lagged_task, exit, client_rx,
                                      client_rx_open>>
                  [] TrySend(stream, stream_open) = "Closed" ->
                       /\ Break
                       /\ UNCHANGED <<stream, sent, lagged_task>>
    /\ UNCHANGED <<loopVars, storageVars, producerVars, filter, stream_open, delivered, cursor,
                   broadcast_open,
                   ping_pc, pings, reader_pc, requests>>

\* one turn of `for message in messages.iter()`
DispatchSend ==
    /\ dispatch.pc = "batch"
    /\ LET message == dispatch.batch[dispatch.index]
           continue == IF dispatch.index < Len(dispatch.batch)
                       THEN [dispatch EXCEPT !.index = @ + 1]
                       ELSE Selecting
       IN  IF ~get_update(filter, message)
           THEN /\ dispatch' = continue
                /\ UNCHANGED <<stream, sent, lagged_task, exit, client_rx, client_rx_open>>
           ELSE CASE TrySend(stream, stream_open) = "Ok" ->
                       /\ Enqueue(Update(message, cursor))
                       /\ dispatch' = continue
                       /\ UNCHANGED <<lagged_task, exit, client_rx, client_rx_open>>
                  [] TrySend(stream, stream_open) = "Full" ->
                       /\ SpawnLagged
                       /\ Break
                       /\ UNCHANGED <<stream, sent>>
                  [] TrySend(stream, stream_open) = "Closed" ->
                       /\ Break
                       /\ UNCHANGED <<stream, sent, lagged_task>>
    /\ UNCHANGED <<loopVars, storageVars, producerVars, filter, stream_open, delivered, cursor,
                   broadcast_open,
                   ping_pc, pings, reader_pc, requests>>

\* faulty variant: a lagged receiver resumes at the oldest batch of the backlog
DispatchLagged_Resume ==
    /\ dispatch.pc = "select"
    /\ Lagging
    /\ cursor' = Len(published) - ChannelCapacity
    /\ UNCHANGED <<loopVars, storageVars, producerVars, filter, client_rx, client_rx_open,
                   stream, stream_open, sent,
                   delivered, lagged_task, exit, dispatch, broadcast_open, ping_pc, pings,
                   reader_pc, requests>>

\* message = messages_rx.recv(): Err(RecvError::Lagged(_))
DispatchLagged ==
    /\ dispatch.pc = "select"
    /\ Lagging
    /\ SpawnLagged
    /\ Break
    /\ UNCHANGED <<loopVars, storageVars, producerVars, filter, stream, stream_open, sent,
                   delivered, cursor,
                   broadcast_open, ping_pc, pings, reader_pc, requests>>

\* message = messages_rx.recv(): Err(RecvError::Closed)
DispatchClosed ==
    /\ dispatch.pc = "select"
    /\ ~broadcast_open
    /\ cursor = Len(published)
    /\ Break
    /\ UNCHANGED <<loopVars, storageVars, producerVars, filter, stream, stream_open, sent,
                   delivered, lagged_task,
                   cursor, broadcast_open, ping_pc, pings, reader_pc, requests>>

\* the spawned stream_tx.send(Err(lagged)).await: waits for room, fails when
\* the receiver is gone
LaggedSend ==
    /\ lagged_task = "pending"
    /\ IF ~stream_open
       THEN UNCHANGED <<stream, sent>>
       ELSE /\ Len(stream) < ChannelCapacity
            /\ Enqueue(Error("lagged"))
    /\ lagged_task' = "done"
    /\ UNCHANGED <<loopVars, storageVars, producerVars, filter, client_rx, client_rx_open,
                   stream_open, delivered,
                   exit, dispatch, cursor, broadcast_open, ping_pc, pings, reader_pc,
                   requests>>

\* while !ping_exit.load(Ordering::Relaxed)
PingCheck ==
    /\ ping_pc = "check"
    /\ ping_pc' = IF exit THEN "done" ELSE "sleep"
    /\ UNCHANGED <<loopVars, storageVars, producerVars, filter, client_rx, client_rx_open,
                   stream, stream_open, sent,
                   delivered, lagged_task, exit, dispatch, cursor, broadcast_open, pings,
                   reader_pc, requests>>

\* faulty variant: a full outbound queue is handled like a closed one
PingSend_NoneOnFull ==
    /\ ping_pc = "sleep"
    /\ pings < MaxPings
    /\ pings' = pings + 1
    /\ IF TrySend(stream, stream_open) = "Ok"
       THEN /\ Enqueue(Ping)
            /\ ping_pc' = "check"
            /\ UNCHANGED client_rx
       ELSE /\ ClientSend([kind |-> "None"])
            /\ ping_pc' = "done"
            /\ UNCHANGED <<stream, sent>>
    /\ UNCHANGED <<loopVars, storageVars, producerVars, filter, client_rx_open, stream_open,
                   delivered, lagged_task,
                   exit, dispatch, cursor, broadcast_open, reader_pc, requests>>

\* sleep(10 s) elapsed: ping_stream_tx.try_send(Ping)
PingAttempt ==
    /\ ping_pc = "sleep"
    /\ pings' = pings + 1
    /\ CASE TrySend(stream, stream_open) = "Ok" ->
              /\ Enqueue(Ping)
              /\ ping_pc' = "check"
              /\ UNCHANGED client_rx
         [] TrySend(stream, stream_open) = "Full" ->
              /\ ping_pc' = "check"
              /\ UNCHANGED <<stream, sent, client_rx>>
         [] TrySend(stream, stream_open) = "Closed" ->
              /\ ClientSend([kind |-> "None"])
              /\ ping_pc' = "done"
              /\ UNCHANGED <<stream, sent>>
    /\ UNCHANGED <<loopVars, storageVars, producerVars, filter, client_rx_open, stream_open,
                   delivered, lagged_task,
                   exit, dispatch, cursor, broadcast_open, reader_pc, requests>>

\* the ping attempts the model follows
PingSend == pings < MaxPings /\ PingAttempt

\* the attempt of a ping task that went to sleep before the exit flag was
\* set, whatever the number of attempts before it
PingLast == exit /\ pings >= MaxPings /\ PingAttempt

\* while !exit.load(Ordering::Relaxed)
ReaderCheck ==
    /\ reader_pc = "check"
    /\ reader_pc' = IF exit THEN "done" ELSE "message"
    /\ UNCHANGED <<loopVars, storageVars, producerVars, filter, client_rx, client_rx_open,
                   stream, stream_open, sent,
                   delivered, lagged_task, exit, dispatch, cursor, broadcast_open, ping_pc,
                   pings, requests>>

\* Ok(Some(request)), Filter::new is Ok: client_tx.send(Some(filter)); when
\* that fails the error is sent on stream_tx like a filter error
ReaderFilter ==
    /\ reader_pc = "message"
    /\ requests < MaxRequests
    /\ requests' = requests + 1
    /\ \E f \in Requests :
          /\ ClientSend([filter |-> f, kind |-> "Some"])
          /\ reader_pc' = IF client_rx_open THEN "check" ELSE "send"
    /\ UNCHANGED <<loopVars, storageVars, producerVars, filter, client_rx_open, stream,
                   stream_open, sent, delivered,
                   lagged_task, exit, dispatch, cursor, broadcast_open, ping_pc, pings>>

\* Ok(Some(request)), Filter::new is Err
ReaderInvalid ==
    /\ reader_pc = "message"
    /\ requests < MaxRequests
    /\ requests' = requests + 1
    /\ reader_pc' = "send"
    /\ UNCHANGED <<loopVars, storageVars, producerVars, filter, client_rx, client_rx_open,
                   stream, stream_open, sent,
                   delivered, lagged_task, exit, dispatch, cursor, broadcast_open, ping_pc,
                   pings>>

\* stream_tx.send(Err(Status::invalid_argument(..))).await: waits for room,
\* fails when the receiver is gone
ReaderSend ==
    /\ reader_pc = "send"
    /\ IF ~stream_open
       THEN UNCHANGED <<stream, sent>>
       ELSE /\ Len(stream) < ChannelCapacity
            /\ Enqueue(Error("invalid_argument"))
    /\ reader_pc' = "check"
    /\ UNCHANGED <<loopVars, storageVars, producerVars, filter, client_rx, client_rx_open,
                   stream_open, delivered,
                   lagged_task, exit, dispatch, cursor, broadcast_open, ping_pc, pings,
                   requests>>

\* Ok(None): the inbound stream ended
ReaderEof ==
    /\ reader_pc = "message"
    /\ reader_pc' = "eof"
    /\ UNCHANGED <<loopVars, storageVars, producerVars, filter, client_rx, client_rx_open,
                   stream, stream_open, sent,
                   delivered, lagged_task, exit, dispatch, cursor, broadcast_open, ping_pc,
                   pings, requests>>

\* Err(_error): the inbound stream failed
ReaderError ==
    /\ reader_pc = "message"
    /\ ClientSend([kind |-> "None"])
    /\ reader_pc' = "done"
    /\ UNCHANGED <<loopVars, storageVars, producerVars, filter, client_rx_open, stream,
                   stream_open, sent, delivered,
                   lagged_task, exit, dispatch, cursor, broadcast_open, ping_pc, pings,
                   requests>>

\* the Broadcast Loop: broadcast_tx.send((commitment, messages))
Publish ==
    /\ broadcast_open
    /\ Len(published) < MaxBatches
    /\ \E commitment \in {"Processed", "Confirmed"}, batch \in BusBatches :
          published' = Append(published, Batch(commitment, batch))
    /\ UNCHANGED <<transactions, messages, processed_messages, blocks_meta_tx,
                   invalid_full_blocks, ingested, sessionVars, storageVars, producerVars>>

\* the service and the Broadcast Loop are gone: every broadcast::Sender dropped
Shutdown ==
    /\ broadcast_open
    /\ broadcast_open' = FALSE
    /\ UNCHANGED <<loopVars, storageVars, producerVars, filter, client_rx, client_rx_open,
                   stream, stream_open, sent,
                   delivered, lagged_task, exit, dispatch, cursor, ping_pc, pings,
                   reader_pc, requests>>

\* the transport polls the ReceiverStream; an Err item ends the response
\* stream, and the ReceiverStream is dropped
Deliver ==
    /\ stream_open
    /\ stream # <<>>
    /\ delivered' = Append(delivered, Head(stream))
    /\ stream' = Tail(stream)
    /\ stream_open' = (Head(stream).kind # "Error")
    /\ UNCHANGED <<loopVars, storageVars, producerVars, filter, client_rx, client_rx_open,
                   sent, lagged_task, exit,
                   dispatch, cursor, broadcast_open, ping_pc, pings, reader_pc, requests>>

\* the client went away: the ReceiverStream is dropped
Disconnect ==
    /\ stream_open
    /\ stream_open' = FALSE
    /\ UNCHANGED <<loopVars, storageVars, producerVars, filter, client_rx, client_rx_open,
                   stream, sent, delivered,
                   lagged_task, exit, dispatch, cursor, broadcast_open, ping_pc, pings,
                   reader_pc, requests>>

InitSession ==
    /\ filter = EmptyFilter
    /\ client_rx = <<>>
    /\ client_rx_open = TRUE
    /\ stream = <<>>
    /\ stream_open = TRUE
    /\ sent = <<>>
    /\ delivered = <<>>
    /\ lagged_task = "none"
    /\ exit = FALSE
    /\ dispatch = Selecting
    /\ cursor = 0
    /\ broadcast_open = TRUE
    /\ ping_pc = "check"
    /\ pings = 0
    /\ reader_pc = "check"
    /\ requests = 0

NextSession ==
    \/ DispatchControl
    \/ DispatchRecv
    \/ DispatchSend
    \/ DispatchLagged
    \/ DispatchClosed
    \/ LaggedSend
    \/ PingCheck
    \/ PingSend
    \/ ReaderCheck
    \/ ReaderFilter
    \/ ReaderInvalid
    \/ ReaderSend
    \/ ReaderEof
    \/ ReaderError
    \/ Publish
    \/ Shutdown
    \/ Deliver
    \/ Disconnect

\* ====================================================================
\* BlockMetaStorage: the cache behind the point queries
\* ====================================================================
\* Option::Some
Some(value) == [type |-> "Some", value |-> value]

\* the fields of MessageBlockMeta the storage reads
BlockMeta(slot, blockhash, block_height) ==
    [type |-> "BlockMeta", slot |-> slot, blockhash |-> blockhash,
     block_height |-> block_height]

\* BlockhashStatus::new
BlockhashStatus(slot) ==
    [slot |-> slot, confirmed |-> FALSE, finalized |-> FALSE, processed |-> FALSE]

\* BlockMetaStorageInner::default()
EmptyStorage ==
    [confirmed |-> None,
     finalized |-> None,
     processed |-> None,
     blocks |-> EmptyMap,
     blockhashes |-> EmptyMap]

\* match commitment { Processed => storage.processed, ... }
CursorOf(st, commitment) ==
    CASE commitment = "Processed" -> st.processed
      [] commitment = "Confirmed" -> st.confirmed
      [] commitment = "Finalized" -> st.finalized

\* match commitment { Processed => status.processed, ... }
FlagOf(status, commitment) ==
    CASE commitment = "Processed" -> status.processed
      [] commitment = "Confirmed" -> status.confirmed
      [] commitment = "Finalized" -> status.finalized

\* A u64 is kept as a number below 2^64 and whether 2^64 is to be added to
\* it: a difference that wrapped is [wrapped |-> TRUE, value |-> a - b], which
\* stands for 2^64 + a - b.
U64(n) == [value |-> n, wrapped |-> FALSE]

\* u64 `-` where overflow wraps
WrappingSub(x, n) ==
    [value |-> x.value - n, wrapped |-> x.wrapped \/ x.value < n]

\* u64 `-` overflows
SubOverflows(x, n) == ~x.wrapped /\ x.value < n

\* *slot >= keep_slot; every slot of the model is far below 2^64 - n for the
\* n subtracted
AtLeast(slot, keep_slot) == ~keep_slot.wrapped /\ slot >= keep_slot.value

\* SetStatus with a cursor that never moves to a smaller slot
SetStatus_NeverBackward(st, msg) ==
    LET held == CursorOf(st, msg.status)
        slot == IF held # None /\ held.value > msg.slot THEN held.value ELSE msg.slot
        cursors == CASE msg.status = "Processed" -> [st EXCEPT !.processed = Some(slot)]
                     [] msg.status = "Confirmed" -> [st EXCEPT !.confirmed = Some(slot)]
                     [] msg.status = "Finalized" -> [st EXCEPT !.finalized = Some(slot)]
    IN  IF msg.slot \in DOMAIN st.blocks
        THEN LET blockhash == st.blocks[msg.slot].blockhash
                 entry == IF blockhash \in DOMAIN st.blockhashes
                          THEN st.blockhashes[blockhash]
                          ELSE BlockhashStatus(msg.slot)
                 flagged ==
                     CASE msg.status = "Processed" -> [entry EXCEPT !.processed = TRUE]
                       [] msg.status = "Confirmed" -> [entry EXCEPT !.confirmed = TRUE]
                       [] msg.status = "Finalized" -> [entry EXCEPT !.finalized = TRUE]
             IN  [cursors EXCEPT
                    !.blockhashes = MapInsert(st.blockhashes, blockhash, flagged)]
        ELSE cursors

\* SetStatus that flags a registered blockhash and registers none
SetStatus_RegisteredOnly(st, msg) ==
    LET cursors == CASE msg.status = "Processed" -> [st EXCEPT !.processed = Some(msg.slot)]
                     [] msg.status = "Confirmed" -> [st EXCEPT !.confirmed = Some(msg.slot)]
                     [] msg.status = "Finalized" -> [st EXCEPT !.finalized = Some(msg.slot)]
    IN  IF /\ msg.slot \in DOMAIN st.blocks
           /\ st.blocks[msg.slot].blockhash \in DOMAIN st.blockhashes
        THEN LET blockhash == st.blocks[msg.slot].blockhash
                 entry == st.blockhashes[blockhash]
                 flagged ==
                     CASE msg.status = "Processed" -> [entry EXCEPT !.processed = TRUE]
                       [] msg.status = "Confirmed" -> [entry EXCEPT !.confirmed = TRUE]
                       [] msg.status = "Finalized" -> [entry EXCEPT !.finalized = TRUE]
             IN  [cursors EXCEPT
                    !.blockhashes = MapInsert(st.blockhashes, blockhash, flagged)]
        ELSE cursors

\* the cursor and the blockhash flag of a Message::Slot
SetStatus(st, msg) ==
    LET cursors == CASE msg.status = "Processed" -> [st EXCEPT !.processed = Some(msg.slot)]
                     [] msg.status = "Confirmed" -> [st EXCEPT !.confirmed = Some(msg.slot)]
                     [] msg.status = "Finalized" -> [st EXCEPT !.finalized = Some(msg.slot)]
    IN  IF msg.slot \in DOMAIN st.blocks
        THEN LET blockhash == st.blocks[msg.slot].blockhash
                 entry == IF blockhash \in DOMAIN st.blockhashes
                          THEN st.blockhashes[blockhash]
                          ELSE BlockhashStatus(msg.slot)
                 flagged ==
                     CASE msg.status = "Processed" -> [entry EXCEPT !.processed = TRUE]
                       [] msg.status = "Confirmed" -> [entry EXCEPT !.confirmed = TRUE]
                       [] msg.status = "Finalized" -> [entry EXCEPT !.finalized = TRUE]
             IN  [cursors EXCEPT
                    !.blockhashes = MapInsert(st.blockhashes, blockhash, flagged)]
        ELSE cursors

\* storage.blocks.retain(|slot, _block| *slot >= keep_slot)
RetainBlocks(st, keep_slot) ==
    [st EXCEPT !.blocks =
        MapRetain(@, {slot \in DOMAIN @ : AtLeast(slot, keep_slot)})]

\* storage.blockhashes.retain(|_blockhash, status| status.slot >= keep_slot)
RetainBlockhashes(st, keep_slot) ==
    [st EXCEPT !.blockhashes =
        MapRetain(@, {h \in DOMAIN @ : AtLeast(@[h].slot, keep_slot)})]

\* the two retention sweeps of a Finalized slot: the storage they leave, and
\* whether a subtraction panicked on the way
Retention(st, slot, checks) ==
    IF checks /\ SubOverflows(U64(slot), KEEP_SLOTS)
    THEN [storage |-> st, panicked |-> TRUE]
    ELSE LET swept == RetainBlocks(st, WrappingSub(U64(slot), KEEP_SLOTS))
             first == WrappingSub(U64(slot), MAX_RECENT_BLOCKHASHES)
         IN  IF checks /\ (SubOverflows(U64(slot), MAX_RECENT_BLOCKHASHES)
                             \/ SubOverflows(first, 32))
             THEN [storage |-> swept, panicked |-> TRUE]
             ELSE [storage |-> RetainBlockhashes(swept, WrappingSub(first, 32)),
                   panicked |-> FALSE]

\* faulty variant: whatever is not a Message::Slot is cached as a block
Write_CachesAny(st, message, checks) ==
    IF message.type = "Slot"
    THEN IF message.status = "Finalized"
         THEN Retention(SetStatus(st, message), message.slot, checks)
         ELSE [storage |-> SetStatus(st, message), panicked |-> FALSE]
    ELSE [storage |-> [st EXCEPT !.blocks = MapInsert(@, message.slot, message)],
          panicked |-> FALSE]

\* one turn of `while let Some(message) = rx.recv().await`; any other
\* variant is logged
Write(st, message, checks) ==
    IF message.type = "Slot"
    THEN IF message.status = "Finalized"
         THEN Retention(SetStatus(st, message), message.slot, checks)
         ELSE [storage |-> SetStatus(st, message), panicked |-> FALSE]
    ELSE IF message.type = "BlockMeta"
    THEN [storage |-> [st EXCEPT !.blocks = MapInsert(@, message.slot, message)],
          panicked |-> FALSE]
    ELSE [storage |-> st, panicked |-> FALSE]

NoResponse == [request |-> None, result |-> None]

\* the writer task takes a message that geyser_loop forwarded: every
\* Message::Slot and Message::BlockMeta, unchanged
Apply(message, limit) ==
    /\ writer_alive
    /\ applied < limit
    /\ applied' = applied + 1
    /\ written' = message
    /\ LET result == Write(storage, message, overflow_checks)
       IN  /\ storage' = result.storage
           /\ writer_alive' = ~result.panicked
    /\ response' = NoResponse
    /\ UNCHANGED <<loopVars, sessionVars, producerVars, overflow_checks>>

StorageSlots == 0..MaxStorageSlot

Blockhashes == 1..MaxBlockhash

StorageSlot ==
    \E slot \in StorageSlots, status \in CommitmentLevel :
        Apply(MessageSlot(slot, status, 0), MaxApplied)

StorageBlockMeta ==
    \E slot \in StorageSlots, blockhash \in Blockhashes :
        \E block_height \in {None, Some(slot)} :
            Apply(BlockMeta(slot, blockhash, block_height), MaxApplied)

\* ------------------------------------------------------------ point queries
\* Result::Ok
Ok(value) == [value |-> value, kind |-> "Ok"]

\* CommitmentLevel as i32
as_i32(commitment) ==
    CASE commitment = "Processed" -> 0
      [] commitment = "Confirmed" -> 1
      [] commitment = "Finalized" -> 2

\* CommitmentLevel::from_i32
from_i32(value) ==
    CASE value = 0 -> Some("Processed")
      [] value = 1 -> Some("Confirmed")
      [] value = 2 -> Some("Finalized")
      [] OTHER -> None

\* faulty variant: a missing commitment is read as Confirmed
parse_commitment_DefaultConfirmed(commitment) ==
    LET value == IF commitment = None THEN as_i32("Confirmed") ELSE commitment.value
        level == from_i32(value)
    IN  IF level = None THEN Error("unknown") ELSE Ok(level.value)

\* BlockMetaStorage::parse_commitment
parse_commitment(commitment) ==
    LET value == IF commitment = None THEN as_i32("Processed") ELSE commitment.value
        level == from_i32(value)
    IN  IF level = None THEN Error("unknown") ELSE Ok(level.value)

\* the closures get_latest_blockhash, get_block_height and get_slot pass to
\* get_block
Handler(method, block) ==
    CASE method = "get_latest_blockhash" ->
           IF block.block_height = None THEN None
           ELSE Some([slot |-> block.slot, blockhash |-> block.blockhash,
                      last_valid_block_height |-> block.block_height.value])
      [] method = "get_block_height" ->
           IF block.block_height = None THEN None
           ELSE Some([block_height |-> block.block_height.value])
      [] method = "get_slot" -> Some([slot |-> block.slot])

\* BlockMetaStorage::get_block
get_block(st, method, commitment) ==
    LET parsed == parse_commitment(commitment)
    IN  IF parsed.kind = "Error" THEN parsed
        ELSE LET slot == CursorOf(st, parsed.value)
             IN  IF slot # None /\ slot.value \in DOMAIN st.blocks
                 THEN LET resp == Handler(method, st.blocks[slot.value])
                      IN  IF resp = None
                          THEN Error("failed to build response")
                          ELSE Ok(resp.value)
                 ELSE Error("block is not available yet")

\* faulty variant: every registered blockhash is valid at every commitment
is_blockhash_valid_AnyStatus(st, blockhash, commitment) ==
    LET parsed == parse_commitment(commitment)
    IN  IF parsed.kind = "Error" THEN parsed
        ELSE IF Cardinality(DOMAIN st.blockhashes) < MAX_RECENT_BLOCKHASHES + 32
        THEN Error("startup")
        ELSE LET slot == CursorOf(st, parsed.value)
             IN  IF slot = None THEN Error("startup")
                 ELSE Ok([slot |-> slot.value,
                          valid |-> blockhash \in DOMAIN st.blockhashes])

\* faulty variant: the registry is taken as warm at MAX_RECENT_BLOCKHASHES
is_blockhash_valid_NoMargin(st, blockhash, commitment) ==
    LET parsed == parse_commitment(commitment)
    IN  IF parsed.kind = "Error" THEN parsed
        ELSE IF Cardinality(DOMAIN st.blockhashes) < MAX_RECENT_BLOCKHASHES
        THEN Error("startup")
        ELSE LET slot == CursorOf(st, parsed.value)
             IN  IF slot = None THEN Error("startup")
                 ELSE Ok([slot |-> slot.value,
                          valid |-> IF blockhash \in DOMAIN st.blockhashes
                                    THEN FlagOf(st.blockhashes[blockhash], parsed.value)
                                    ELSE FALSE])

\* BlockMetaStorage::is_blockhash_valid
is_blockhash_valid(st, blockhash, commitment) ==
    LET parsed == parse_commitment(commitment)
    IN  IF parsed.kind = "Error" THEN parsed
        ELSE IF Cardinality(DOMAIN st.blockhashes) < MAX_RECENT_BLOCKHASHES + 32
        THEN Error("startup")
        ELSE LET slot == CursorOf(st, parsed.value)
             IN  IF slot = None THEN Error("startup")
                 ELSE Ok([slot |-> slot.value,
                          valid |-> IF blockhash \in DOMAIN st.blockhashes
                                    THEN FlagOf(st.blockhashes[blockhash], parsed.value)
                                    ELSE FALSE])

\* request.get_ref().commitment: Option<i32>
Commitments == {None} \cup {Some(value) : value \in 0..MaxCommitment}

Request(method, blockhash, commitment) ==
    [commitment |-> commitment, blockhash |-> blockhash, method |-> method]

\* the response of the storage to a request
Respond(st, request) ==
    IF request.method = "is_blockhash_valid"
    THEN is_blockhash_valid(st, request.blockhash, request.commitment)
    ELSE get_block(st, request.method, request.commitment)

Query(request) ==
    /\ response' = [request |-> request, result |-> Respond(storage, request)]
    /\ UNCHANGED <<loopVars, sessionVars, producerVars, storage, writer_alive, overflow_checks,
                   applied,
                   written>>

\* Geyser::get_latest_blockhash
GetLatestBlockhash ==
    \E commitment \in Commitments :
        Query(Request("get_latest_blockhash", 0, commitment))

\* Geyser::get_block_height
GetBlockHeight ==
    \E commitment \in Commitments :
        Query(Request("get_block_height", 0, commitment))

\* Geyser::get_slot
GetSlot ==
    \E commitment \in Commitments :
        Query(Request("get_slot", 0, commitment))

\* Geyser::is_blockhash_valid
IsBlockhashValid ==
    \E blockhash \in Blockhashes, commitment \in Commitments :
        Query(Request("is_blockhash_valid", blockhash, commitment))

\* -------------------------------------- geyser_loop and the writer task
\* The loop on a narrow stream of messages (one pubkey, one write_version,
\* one transaction index) with the writer task at the other end of
\* blocks_meta_tx.
ForwardSlot ==
    \E slot \in Slots, status \in CommitmentLevel :
        Receive(MessageSlot(slot, status, NextId), MaxForwardEvents)

ForwardAccount ==
    \E slot \in Slots :
        Receive(MessageAccount(slot, "P", 1, NextId), MaxForwardEvents)

ForwardTransaction ==
    \E slot \in Slots :
        Receive(MessageTransaction(slot, 0, NextId), MaxForwardEvents)

ForwardBlockMeta ==
    \E slot \in Slots, count \in 0..1 :
        Receive(MessageBlockMeta(slot, count, NextId), MaxForwardEvents)

\* the message the writer task receives next: the oldest it has not taken
NextForwarded == blocks_meta_tx[applied + 1]

\* the writer task takes the next message of the queue; of a
\* MessageBlockMeta the storage reads the slot, the blockhash and the
\* block_height, and the loop reads neither of the last two
WriterRecv ==
    /\ applied < Len(blocks_meta_tx)
    /\ IF NextForwarded.type = "BlockMeta"
       THEN \E blockhash \in Blockhashes :
               Apply(BlockMeta(NextForwarded.slot, blockhash, Some(NextForwarded.slot)),
                     MaxForwardEvents)
       ELSE Apply(NextForwarded, MaxForwardEvents)

\* the other variants of Message
OtherMessages ==
    {MessageAccount(1, "P", 1, 0), MessageTransaction(1, 0, 0),
     MessageBlock(MessageBlockMeta(1, 0, 0), <<>>)}

\* a message of another variant arrives at the writer task, from a sender
\* other than the loop
WriterOther ==
    /\ writer_alive
    /\ \E message \in OtherMessages :
          /\ written' = message
          /\ LET result == Write(storage, message, overflow_checks)
             IN  /\ storage' = result.storage
                 /\ writer_alive' = ~result.panicked
    /\ response' = NoResponse
    /\ UNCHANGED <<loopVars, sessionVars, producerVars, overflow_checks, applied>>

\* ====================================================================
\* ScyllaProducerStore: the choice of a producer for a consumer group
\* ====================================================================
ProducerIds == 1..MaxProducer

SeenSlots == 1..MaxSeenSlot

CommitmentLevels == {"Processed", "Confirmed"}

\* a query that failed: the `?` of the call returns its error
QueryError == Error("query")

\* list_living_producers panics when etcd fails (`expect`)
Panic == [kind |-> "Panic"]

\* LIST_PRODUCER_WITH_COMMITMENT_LEVEL on the rows of producer_info
list_producer_with_commitment_level(producer_info, commitment_level) ==
    IF producer_info.kind # "Ok"
    THEN QueryError
    ELSE Ok({id \in ProducerIds : producer_info.value[id] = commitment_level})

\* LIST_PRODUCER_WITH_SLOT (WHERE slot IN slot_range.collect()) on the rows of
\* slot_producer_seen_mv; a range is <<start, end>>, both included
list_producer_with_slot(slot_producer_seen, slot_range) ==
    IF slot_producer_seen.kind # "Ok"
    THEN QueryError
    ELSE Ok({id \in ProducerIds :
               \E slot \in slot_producer_seen.value[id] :
                   slot_range[1] <= slot /\ slot <= slot_range[2]})

\* producer_count_pairs.get(k).cloned().unwrap_or(0): a producer without
\* consumers has no row in producer_consumer_mapping_mv
CountOf(producer_count_pairs, id) ==
    IF id \in DOMAIN producer_count_pairs THEN producer_count_pairs[id] ELSE 0

\* faulty variant: the first eligible producer, whatever its count
min_by_key_First(elligible_producers, producer_count_pairs) ==
    CHOOSE id \in elligible_producers : \A other \in elligible_producers : id <= other

\* Iterator::min_by_key over a BTreeSet: the least key, the first of those
\* in ascending order
min_by_key(elligible_producers, producer_count_pairs) ==
    CHOOSE id \in elligible_producers :
        \A other \in elligible_producers :
            \/ CountOf(producer_count_pairs, id) < CountOf(producer_count_pairs, other)
            \/ /\ CountOf(producer_count_pairs, id) = CountOf(producer_count_pairs, other)
               /\ id <= other

\* GET_PRODUCERS_CONSUMER_COUNT, then min_by_key
LeastAssigned(elligible_producers, consumer_count) ==
    IF consumer_count.kind # "Ok"
    THEN QueryError
    ELSE Ok(min_by_key(elligible_producers, consumer_count.value))

\* the call on the answers q of etcd and of the database
get_producer_id_with_least_assigned_consumer(q, opt_slot_range, commitment_level) ==
    IF q.living_producers.kind # "Ok" THEN Panic
    ELSE IF q.living_producers.value = {} THEN Error("NoActiveProducer")
    ELSE LET producers_with_commitment_level ==
                 list_producer_with_commitment_level(q.producer_info, commitment_level)
         IN  IF producers_with_commitment_level.kind # "Ok" THEN QueryError
             ELSE IF producers_with_commitment_level.value = {}
             THEN Error("ImpossibleCommitmentLevel")
             ELSE LET elligible_producers ==
                          producers_with_commitment_level.value \cap q.living_producers.value
                  IN  IF elligible_producers = {}
                      THEN Error("ImpossibleTimelineSelection")
                      ELSE IF opt_slot_range = None
                      THEN LeastAssigned(elligible_producers, q.consumer_count)
                      ELSE LET producers_with_slot ==
                                   list_producer_with_slot(q.slot_producer_seen,
                                                           opt_slot_range.value)
                           IN  IF producers_with_slot.kind # "Ok" THEN QueryError
                               ELSE IF elligible_producers \cap producers_with_slot.value = {}
                               THEN Error("ImpossibleSlotOffset")
                               ELSE LeastAssigned(
                                        elligible_producers \cap producers_with_slot.value,
                                        q.consumer_count)

\* what etcd and the database hold, or that the query for it fails:
\* the producer locks, producer_info, slot_producer_seen_mv and the counts of
\* producer_consumer_mapping_mv
Answers ==
    [producer_info : {Ok(info) : info \in [ProducerIds -> CommitmentLevels]}
                        \cup {QueryError},
     slot_producer_seen : {Ok(seen) : seen \in [ProducerIds -> SUBSET SeenSlots]}
                             \cup {QueryError},
     consumer_count : {Ok(count) : count \in UNION {[ids -> 1..MaxConsumers] :
                                                       ids \in SUBSET ProducerIds}}
                         \cup {QueryError},
     living_producers : {Ok(ids) : ids \in SUBSET ProducerIds} \cup {QueryError}]

\* opt_slot_range: None, or start..=end (empty when start > end)
SlotRanges == {None} \cup {Some(<<1, end>>) : end \in SeenSlots} \cup {Some(<<MaxSeenSlot, 1>>)}

NoAnswers ==
    [producer_info |-> QueryError,
     slot_producer_seen |-> QueryError,
     consumer_count |-> QueryError,
     living_producers |-> QueryError]

Idle == [result |-> None, commitment_level |-> "Processed", opt_slot_range |-> None]

\* get_producer_id_with_least_assigned_consumer(opt_slot_range, commitment_level)
GetProducer ==
    /\ selection.result = None
    /\ selection' = [selection EXCEPT !.result =
          get_producer_id_with_least_assigned_consumer(
              queries, selection.opt_slot_range, selection.commitment_level)]
    /\ UNCHANGED <<loopVars, sessionVars, storageVars, queries, monitorVars>>

\* ====================================================================
\* EtcdProducerMonitor: the dead signal of a producer
\* ====================================================================
\* a watch response is the number of its events, all of them Delete events
\* (WatchFilterType::NoPut); the end of the stream, None or Some(Err), is
StreamEnd == -1

\* faulty variant: the lookup answers as if the lock was there
count_Stale(present) == 1

\* get_resp.count() of the lookup of the lock path
count(present) == IF present THEN 1 ELSE 0

\* the producer dies or gives up its lock: etcd deletes the key, and an open
\* watch records the event, in a response of its own or in the one that is
\* still to be taken
LockDelete ==
    /\ lock
    /\ deletes < MaxDeletes
    /\ lock' = FALSE
    /\ deletes' = deletes + 1
    /\ IF watch_state = "open"
       THEN /\ events' = events + 1
            /\ \/ watch_stream' = Append(watch_stream, 1)
               \/ /\ watch_stream # <<>>
                  /\ watch_stream' =
                        [watch_stream EXCEPT ![Len(watch_stream)] = @ + 1]
       ELSE UNCHANGED <<events, watch_stream>>
    /\ UNCHANGED <<loopVars, sessionVars, storageVars, queries, selection>>
    /\ UNCHANGED <<watch_state, monitor_pc, get_count, signal_tx, signal, task_pc, sends>>

\* a producer takes the lock again: a Put, which the watch filters out
LockPut ==
    /\ ~lock
    /\ lock' = TRUE
    /\ UNCHANGED <<loopVars, sessionVars, storageVars, queries, selection>>
    /\ UNCHANGED <<deletes, watch_state, watch_stream, events, monitor_pc, get_count,
                   signal_tx, signal, task_pc, sends>>

\* the watch stream ends or fails; responses not yet taken may be lost
StreamFail ==
    /\ watch_state = "open"
    /\ watch_state' = "failed"
    /\ \E kept \in 0..Len(watch_stream) :
          watch_stream' = Append(SubSeq(watch_stream, 1, kept), StreamEnd)
    /\ UNCHANGED <<loopVars, sessionVars, storageVars, queries, selection>>
    /\ UNCHANGED <<lock, deletes, events, monitor_pc, get_count, signal_tx, signal, task_pc, sends>>

\* watch_client().watch(producer_lock_path, NoPut).await.expect(..)
MonitorWatch ==
    /\ monitor_pc = "watch"
    /\ \/ /\ monitor_pc' = "get"
          /\ watch_state' = "open"
       \/ /\ monitor_pc' = "panicked"
          /\ UNCHANGED watch_state
    /\ UNCHANGED <<loopVars, sessionVars, storageVars, queries, selection>>
    /\ UNCHANGED <<lock, deletes, watch_stream, events, get_count, signal_tx, signal, task_pc,
                   sends>>

\* kv_client().get(producer_lock_path).await.expect(..), and the rest of the
\* call: the signal is created, and sent at once when the lock is not there
\* (the watcher is dropped with the call), otherwise the task is spawned
MonitorGet ==
    /\ monitor_pc = "get"
    /\ \/ /\ monitor_pc' = "returned"
          /\ get_count' = count(lock)
          /\ signal' = "pending"
          /\ IF get_count' = 0
             THEN /\ signal_tx' = "sent"
                  /\ sends' = sends + 1
                  /\ task_pc' = "none"
                  /\ watch_state' = "cancelled"
             ELSE /\ signal_tx' = "held"
                  /\ sends' = sends
                  /\ task_pc' = "select"
                  /\ UNCHANGED watch_state
       \/ /\ monitor_pc' = "panicked"
          /\ watch_state' = "cancelled"
          /\ UNCHANGED <<get_count, signal_tx, signal, task_pc, sends>>
    /\ UNCHANGED <<loopVars, sessionVars, storageVars, queries, selection>>
    /\ UNCHANGED <<lock, deletes, watch_stream, events>>

\* the task, select! branch stream.next(): the first Delete event of a
\* response sends the signal and leaves the loop; the end of the stream leaves
\* it without sending, and tx is dropped with the task. tx.send fails when
\* the signal was dropped, and expect panics. The watch is cancelled after
\* the loop, or dropped by the panic
TaskStream ==
    /\ task_pc = "select"
    /\ watch_stream # <<>>
    /\ watch_stream' = Tail(watch_stream)
    /\ watch_state' = "cancelled"
    /\ IF Head(watch_stream) = StreamEnd
       THEN /\ signal_tx' = "dropped"
            /\ task_pc' = "done"
            /\ UNCHANGED sends
       ELSE IF signal = "dropped"
       THEN /\ signal_tx' = "dropped"
            /\ task_pc' = "panicked"
            /\ UNCHANGED sends
       ELSE /\ signal_tx' = "sent"
            /\ task_pc' = "done"
            /\ sends' = sends + 1
    /\ UNCHANGED <<loopVars, sessionVars, storageVars, queries, selection>>
    /\ UNCHANGED <<lock, deletes, events, monitor_pc, get_count, signal>>

\* the task, select! branch rx_terminate: the signal was dropped, so
\* tx.is_closed() and the loop is left
TaskTerminate ==
    /\ task_pc = "select"
    /\ signal = "dropped"
    /\ task_pc' = "done"
    /\ signal_tx' = "dropped"
    /\ watch_state' = "cancelled"
    /\ UNCHANGED <<loopVars, sessionVars, storageVars, queries, selection>>
    /\ UNCHANGED <<lock, deletes, watch_stream, events, monitor_pc, get_count, signal, sends>>

\* ProducerDeadSignal::poll by its holder: Ready(Ok(())) once the signal was
\* sent, Ready(Err(RecvError)) once tx was dropped without it
Poll ==
    /\ signal = "pending"
    /\ signal_tx \in {"sent", "dropped"}
    /\ signal' = IF signal_tx = "sent" THEN "ok" ELSE "err"
    /\ UNCHANGED <<loopVars, sessionVars, storageVars, queries, selection>>
    /\ UNCHANGED <<lock, deletes, watch_state, watch_stream, events, monitor_pc, get_count,
                   signal_tx, task_pc, sends>>

\* the holder drops the signal it did not wait for: rx and tx_terminate go
DropSignal ==
    /\ signal = "pending"
    /\ signal' = "dropped"
    /\ UNCHANGED <<loopVars, sessionVars, storageVars, queries, selection>>
    /\ UNCHANGED <<lock, deletes, watch_state, watch_stream, events, monitor_pc, get_count,
                   signal_tx, task_pc, sends>>

\* a producer that holds its lock, and a call that has not begun
InitMonitor ==
    /\ lock = TRUE
    /\ deletes = 0
    /\ watch_state = "closed"
    /\ watch_stream = <<>>
    /\ events = 0
    /\ monitor_pc = "watch"
    /\ get_count = -1
    /\ signal_tx = "none"
    /\ signal = "none"
    /\ task_pc = "none"
    /\ sends = 0

InitProducer ==
    /\ queries = NoAnswers
    /\ selection = Idle
    /\ InitMonitor

InitStorage ==
    /\ storage = EmptyStorage
    /\ writer_alive = TRUE
    /\ applied = 0
    /\ written = None
    /\ response = NoResponse

InitLoop ==
    /\ transactions = EmptyMap
    /\ messages = EmptyMap
    /\ processed_messages = <<>>
    /\ published = <<>>
    /\ blocks_meta_tx = <<>>
    /\ invalid_full_blocks = 0
    /\ ingested = <<>>

Init ==
    InitLoop /\ InitSession /\ InitStorage /\ InitProducer /\ overflow_checks = FALSE

Next ==
    \/ ReceiveSlot
    \/ ReceiveAccount
    \/ ReceiveTransaction
    \/ ReceiveBlockMeta
    \/ ProcessedSleep

Spec == Init /\ [][Next]_vars

\* The same loop on slot and account messages only
NextAccounts ==
    \/ ReceiveSlot
    \/ ReceiveAccount
    \/ ProcessedSleep

SpecAccounts == Init /\ [][NextAccounts]_vars

\* The same loop on slot, transaction and block-meta messages only
NextBlocks ==
    \/ ReceiveSlot
    \/ ReceiveTransaction
    \/ ReceiveBlockMeta
    \/ ProcessedSleep

SpecBlocks == Init /\ [][NextBlocks]_vars

NextReplay ==
    \/ ReplaySlot
    \/ ReplayAccount
    \/ ReplayTransaction
    \/ ProcessedSleep

SpecReplay == Init /\ [][NextReplay]_vars

SpecSession == Init /\ [][NextSession]_vars

\* ------------------------------------------- a storage that ran for a while
\* one entry short of the blockhashes is_blockhash_valid asks for
WarmEntries == MAX_RECENT_BLOCKHASHES + 32 - 1

\* The storage after the writer handled, for each slot of first..last in
\* turn, the slot's BlockMeta and then its Message::Slot at each of the
\* statuses (Finalized among them): every blockhash is registered with the
\* flags of the statuses, the Finalized sweeps left the blocks of the last
\* KEEP_SLOTS + 1 slots, and the cursors are at the last slot. The blockhash
\* of a slot is written as the slot's number; first is above
\* MAX_RECENT_BLOCKHASHES + 32, so that no subtraction overflowed.
WarmStorage(first, last, statuses) ==
    [confirmed |-> IF "Confirmed" \in statuses THEN Some(last) ELSE None,
     finalized |-> IF "Finalized" \in statuses THEN Some(last) ELSE None,
     processed |-> IF "Processed" \in statuses THEN Some(last) ELSE None,
     blocks |-> [slot \in {k \in first..last : k >= last - KEEP_SLOTS} |->
                    BlockMeta(slot, slot, Some(slot))],
     blockhashes |-> [blockhash \in first..last |->
                        [slot |-> blockhash,
                         confirmed |-> "Confirmed" \in statuses,
                         finalized |-> "Finalized" \in statuses,
                         processed |-> "Processed" \in statuses]]]

\* the statuses the plugin reported during the warm-up
WarmStatuses ==
    {{"Processed", "Confirmed", "Finalized"}, {"Processed", "Finalized"}}

WarmTop == WarmBase + WarmEntries

WarmSlots == (WarmTop + 1)..(WarmTop + MaxWarmSlot)

\* an unknown blockhash, the oldest of the registry, the next new one
WarmBlockhashes == {0, WarmBase + 1, WarmTop + 1}

WarmSlot ==
    \E slot \in WarmSlots, status \in CommitmentLevel :
        Apply(MessageSlot(slot, status, 0), MaxWarmApplied)

WarmBlockMeta ==
    \E slot \in WarmSlots :
        Apply(BlockMeta(slot, slot, Some(slot)), MaxWarmApplied)

WarmIsBlockhashValid ==
    \E blockhash \in WarmBlockhashes, commitment \in Commitments :
        Query(Request("is_blockhash_valid", blockhash, commitment))

\* no subtraction overflows at these slots: the two builds agree
InitWarm ==
    /\ InitLoop
    /\ InitSession
    /\ InitProducer
    /\ overflow_checks = FALSE
    /\ writer_alive = TRUE
    /\ applied = 0
    /\ written = None
    /\ response = NoResponse
    /\ \E statuses \in WarmStatuses : storage = WarmStorage(WarmBase + 1, WarmTop, statuses)

NextWarm ==
    \/ WarmSlot
    \/ WarmBlockMeta
    \/ WarmIsBlockhashValid

SpecWarm == InitWarm /\ [][NextWarm]_vars

NextCache ==
    \/ StorageSlot
    \/ StorageBlockMeta
    \/ GetLatestBlockhash
    \/ GetBlockHeight
    \/ GetSlot
    \/ IsBlockhashValid

\* the storage from its creation, in either build
InitCache ==
    InitLoop /\ InitSession /\ InitStorage /\ InitProducer /\ overflow_checks \in BOOLEAN

SpecCache == InitCache /\ [][NextCache]_vars

\* the call on every state of etcd and of the database, for every argument
InitSelect ==
    /\ InitLoop
    /\ InitSession
    /\ InitStorage
    /\ overflow_checks = FALSE
    /\ InitMonitor
    /\ queries \in Answers
    /\ \E opt_slot_range \in SlotRanges, commitment_level \in CommitmentLevels :
          selection = [result |-> None,
                       commitment_level |-> commitment_level,
                       opt_slot_range |-> opt_slot_range]

NextSelect == GetProducer

SpecSelect == InitSelect /\ [][NextSelect]_vars

NextMonitor ==
    \/ LockDelete
    \/ LockPut
    \/ StreamFail
    \/ MonitorWatch
    \/ MonitorGet
    \/ TaskStream
    \/ TaskTerminate
    \/ Poll
    \/ DropSignal

\* the runtime runs the spawned task whenever a watch response is there
SpecMonitor == Init /\ [][NextMonitor]_vars /\ WF_vars(TaskStream)

\* client_loop as one task
Dispatch ==
    \/ DispatchControl
    \/ DispatchRecv
    \/ DispatchSend
    \/ DispatchLagged
    \/ DispatchClosed

\* the reader task on a client that sends one valid request at most
TaskFilter == requests < MaxTaskRequests /\ ReaderFilter

\* ------------------------------------ geyser_loop and a subscriber session
\* The loop on a short stream of messages, with a session on the receiving
\* end of broadcast_tx: `published` is what the session's receiver reads.
BusSlot ==
    \E status \in CommitmentLevel :
        Receive(MessageSlot(1, status, NextId), MaxBusEvents)

\* faulty variant: the message is taken only once the receiver has caught up
BusAccount_Backpressure ==
    /\ ~Lagging
    /\ Receive(MessageAccount(1, "P", 1, NextId), MaxBusEvents)

BusAccount == Receive(MessageAccount(1, "P", 1, NextId), MaxBusEvents)

BusTransaction == Receive(MessageTransaction(1, 0, NextId), MaxBusEvents)

BusBlockMeta == Receive(MessageBlockMeta(1, 1, NextId), MaxBusEvents)

NextBus ==
    \/ BusSlot
    \/ BusAccount
    \/ BusTransaction
    \/ BusBlockMeta
    \/ ProcessedSleep
    \/ DispatchControl
    \/ DispatchRecv
    \/ DispatchSend
    \/ DispatchLagged
    \/ LaggedSend
    \/ ReaderCheck
    \/ TaskFilter
    \/ Deliver
    \/ Disconnect

SpecBus == Init /\ [][NextBus]_vars


NextTasks ==
    \/ Dispatch
    \/ LaggedSend
    \/ PingCheck
    \/ PingSend
    \/ PingLast
    \/ ReaderCheck
    \/ TaskFilter
    \/ ReaderEof
    \/ ReaderError
    \/ Publish
    \/ Shutdown
    \/ Deliver
    \/ Disconnect

\* the three tasks of a session, scheduled: the runtime runs a task that can
\* take a step, and the sleep of the ping task elapses
SpecTasks ==
    /\ Init
    /\ [][NextTasks]_vars
    /\ WF_vars(Dispatch)
    /\ WF_vars(PingCheck)
    /\ WF_vars(PingSend)
    /\ WF_vars(PingLast)
    /\ WF_vars(ReaderCheck)

NextForward ==
    \/ ForwardSlot
    \/ ForwardAccount
    \/ ForwardTransaction
    \/ ForwardBlockMeta
    \/ ProcessedSleep
    \/ WriterRecv
    \/ WriterOther

\* the loop and the writer task of the storage, in either build
SpecForward == InitCache /\ [][NextForward]_vars

NextBatch ==
    \/ BatchTransaction
    \/ BatchSlot
    \/ ProcessedSleep

\* the timer branch is taken once the sleep elapsed, unless the pending batch
\* was published before
SpecBatch == Init /\ [][NextBatch]_vars /\ WF_vars(ProcessedSleep)

\* ====================================================================
\* Properties of the Broadcast Loop
\* ====================================================================
IsReceive == Len(ingested') = Len(ingested) + 1

\* the message the step received
Received == ingested'[Len(ingested')]

\* the batches the step gave to broadcast_tx.send
NewBatches == SubSeq(published', Len(published) + 1, Len(published'))

Contains(seq, m) == \E k \in DOMAIN seq : seq[k] = m

\* the Block messages that went through process_message so far
BlocksOf(pub, pending) ==
    {m \in Range(pending) \cup UNION {Range(pub[j].messages) : j \in DOMAIN pub} :
        m.type = "Block"}

NewBlocks ==
    BlocksOf(published', processed_messages') \ BlocksOf(published, processed_messages)

\* C1: every ingested SlotEvent, whatever its status, is in exactly one batch
\* of each of the three commitment channels, at any later time.
C1_SlotOncePerChannel ==
    \A i \in DOMAIN ingested :
        ingested[i].type = "Slot" =>
            \A c \in CommitmentLevel :
                /\ Cardinality({j \in DOMAIN published :
                       /\ published[j].commitment = c
                       /\ Contains(published[j].messages, ingested[i])}) = 1
                /\ \A j \in DOMAIN published :
                       Cardinality({k \in DOMAIN published[j].messages :
                           published[j].messages[k] = ingested[i]}) <= 1

\* a Processed SlotEvent was ingested and batches were published after its own
C1_Witness ==
    \E i \in DOMAIN ingested :
        /\ ingested[i].type = "Slot"
        /\ ingested[i].status = "Processed"
        /\ \E j \in DOMAIN published :
              /\ published[j].commitment = "Finalized"
              /\ Contains(published[j].messages, ingested[i])
              /\ Len(published) >= j + 3

\* the place in `ing` of the last Finalized SlotEvent for a slot >= s, which
\* evicted the accumulator's entry of s (0 when there is none)
LastEviction(ing, s) ==
    LET E == {i \in DOMAIN ing : /\ ing[i].type = "Slot"
                                 /\ ing[i].status = "Finalized"
                                 /\ ing[i].slot >= s}
    IN  IF E = {} THEN 0 ELSE CHOOSE i \in E : \A j \in E : j <= i

\* the AccountEvents of (s, pubkey) in `ing` after place `from`
AccountsOf(ing, s, pubkey, from) ==
    {ing[i] : i \in {j \in DOMAIN ing : /\ j > from
                                        /\ ing[j].type = "Account"
                                        /\ ing[j].slot = s
                                        /\ ing[j].pubkey = pubkey}}

\* x has the greatest write_version of the rivals, and is the first of those
Wins(x, rivals) ==
    /\ x \in rivals
    /\ \A e \in rivals :
          \/ e.write_version < x.write_version
          \/ e.write_version = x.write_version /\ e.id >= x.id

\* b holds one AccountEvent per (slot, pubkey), the winner of those ingested
\* after place from(slot)
Deduplicated(b, from(_)) ==
    \A i \in DOMAIN b.messages :
        b.messages[i].type = "Account" =>
            LET x == b.messages[i]
            IN  /\ \A j \in DOMAIN b.messages :
                      (j # i /\ b.messages[j].type = "Account") =>
                          ~ (b.messages[j].slot = x.slot /\ b.messages[j].pubkey = x.pubkey)
                /\ Wins(x, AccountsOf(ingested, x.slot, x.pubkey, from(x.slot)))

FromStart(s) == 0

FromEviction(s) == LastEviction(ingested, s)

IsHigherBatch(b) == b.commitment \in {"Confirmed", "Finalized"}

\* C2 as claimed: a Confirmed or Finalized batch has at most one AccountEvent
\* per (slot, pubkey), the one of greatest write_version (the first-arrived of
\* those) among all the AccountEvents ingested for them before the batch.
C2_DedupOverAllIngested ==
    [][\A n \in DOMAIN NewBatches :
          IsHigherBatch(NewBatches[n]) => Deduplicated(NewBatches[n], FromStart)
      ]_vars

\* C2 as amended: the same, among the AccountEvents ingested since the last
\* Finalized SlotEvent for that slot or a later one (which evicted the slot's
\* entry); and the winner of every pubkey recorded since is in the batch of
\* the SlotEvent's own status.
C2_DedupSinceEviction ==
    [][\A n \in DOMAIN NewBatches :
          LET b == NewBatches[n]
          IN  IsHigherBatch(b) =>
                /\ Deduplicated(b, FromEviction)
                /\ \A i \in DOMAIN b.messages :
                      b.messages[i].type = "Account" => b.messages[i].slot = Received.slot
                /\ b.commitment = Received.status =>
                      \A pubkey \in Pubkeys :
                          AccountsOf(ingested, Received.slot, pubkey,
                                     FromEviction(Received.slot)) # {} =>
                              \E i \in DOMAIN b.messages :
                                  /\ b.messages[i].type = "Account"
                                  /\ b.messages[i].pubkey = pubkey
      ]_vars

\* write_versions 1, 2, 1 of one account, then the slot is confirmed: the
\* Confirmed batch is the second AccountEvent and the SlotEvent
C2_Witness ==
    /\ Len(ingested) = 4
    /\ \A i \in 1..3 : ingested[i].type = "Account" /\ ingested[i].pubkey = "P"
                       /\ ingested[i].slot = 1
    /\ ingested[1].write_version = 1
    /\ ingested[2].write_version = 2
    /\ ingested[3].write_version = 1
    /\ ingested[4].type = "Slot" /\ ingested[4].status = "Confirmed"
    /\ \E j \in DOMAIN published :
          /\ published[j].commitment = "Confirmed"
          /\ published[j].messages = <<ingested[2], ingested[4]>>

\* the events of a batch that are neither AccountEvents nor SlotEvents
NonAccount(b) == SelectSeq(b.messages, LAMBDA x : x.type \notin {"Account", "Slot"})

\* seq holds the elements of sub, in the order of sub (no element repeats)
HoldsInOrder(seq, sub) == SelectSeq(seq, LAMBDA x : x \in Range(sub)) = sub

BatchOf(commitment, slot_message) ==
    CHOOSE b \in Range(published) :
        b.commitment = commitment /\ Contains(b.messages, slot_message)

\* the Finalized batch `fin` of slot S replays the Confirmed batch of the
\* Confirmed SlotEvent at place c
Replays(fin, c) ==
    /\ HoldsInOrder(NonAccount(fin), NonAccount(BatchOf("Confirmed", ingested[c])))
    /\ Deduplicated(fin, FromEviction)
    /\ fin.messages[Len(fin.messages)] = Received

FinalizedAfterBoth(c) ==
    /\ IsReceive
    /\ Received.type = "Slot"
    /\ Received.status = "Finalized"
    /\ ingested[c].type = "Slot"
    /\ ingested[c].status = "Confirmed"
    /\ ingested[c].slot = Received.slot
    /\ \E p \in DOMAIN ingested :
          /\ ingested[p].type = "Slot"
          /\ ingested[p].status = "Processed"
          /\ ingested[p].slot = Received.slot
    /\ \A f \in DOMAIN ingested :
          ~ /\ ingested[f].type = "Slot"
            /\ ingested[f].status = "Finalized"
            /\ ingested[f].slot = Received.slot

MetaAfter(m) ==
    IF m.type = "BlockMeta" THEN m
    ELSE IF m.slot \in DOMAIN transactions THEN transactions[m.slot].meta ELSE None

TxsBefore(m) ==
    IF m.slot \in DOMAIN transactions THEN transactions[m.slot].transactions ELSE <<>>

TxCountAfter(m) ==
    Len(TxsBefore(m)) + (IF m.type = "Transaction" THEN 1 ELSE 0)

\* C4: a step emits a BlockEvent for slot S exactly when it receives a
\* Transaction or BlockMeta for S after which the aggregate of S holds a meta
\* and as many transactions as the meta's executed_tx_count; the BlockEvent is
\* built from that meta, and no aggregate is left complete.
C4_BlockIffComplete ==
    [][/\ IsReceive =>
            LET m == Received
                meta == MetaAfter(m)
                complete == /\ m.type \in {"Transaction", "BlockMeta"}
                            /\ meta.type # "None"
                            /\ meta.executed_transaction_count = TxCountAfter(m)
            IN  /\ complete <=> NewBlocks # {}
                /\ \A b \in NewBlocks : b.slot = m.slot /\ b.meta = meta
       /\ ~IsReceive => NewBlocks = {}
       /\ \A s \in DOMAIN transactions' :
            ~ /\ transactions'[s].meta.type # "None"
              /\ transactions'[s].meta.executed_transaction_count
                    = Len(transactions'[s].transactions)
      ]_vars

\* a block was emitted by its last transaction, and another by its meta
C4_Witness ==
    /\ \E b \in BlocksOf(published, processed_messages) :
          \E t \in Range(b.transactions) : t.id > b.meta.id
    /\ \E b \in BlocksOf(published, processed_messages) :
          b.transactions # <<>> /\ \A t \in Range(b.transactions) : t.id < b.meta.id

\* C5: an emitted BlockEvent carries exactly the transactions accumulated for
\* its slot, ascending by index.
C5_BlockTransactionsSorted ==
    [][\A b \in NewBlocks :
          LET m == Received
              accumulated == Range(TxsBefore(m)) \cup
                             (IF m.type = "Transaction" THEN {m.transaction} ELSE {})
          IN  /\ Range(b.transactions) = accumulated
              /\ Len(b.transactions) = TxCountAfter(m)
              /\ \A i, j \in DOMAIN b.transactions :
                    i < j => b.transactions[i].index <= b.transactions[j].index
      ]_vars

\* a block whose transactions arrived in descending index order
C5_Witness ==
    \E b \in BlocksOf(published, processed_messages) :
        /\ Len(b.transactions) = 2
        /\ b.transactions[1].index < b.transactions[2].index
        /\ b.transactions[1].id > b.transactions[2].id

\* C6: after a Finalized SlotEvent for S the aggregate holds no key below S;
\* an entry at S with a meta is dropped, counted once as an invalid full
\* block, and no BlockEvent is emitted for S; otherwise nothing is counted.
C6_RemoveOutdated ==
    [][(IsReceive /\ Received.type = "Slot" /\ Received.status = "Finalized") =>
          LET S == Received.slot
          IN  /\ \A k \in DOMAIN transactions' : k >= S
              /\ IF S \in DOMAIN transactions /\ transactions[S].meta.type # "None"
                 THEN /\ invalid_full_blocks' = invalid_full_blocks + 1
                      /\ S \notin DOMAIN transactions'
                      /\ \A b \in NewBlocks : b.slot # S
                 ELSE invalid_full_blocks' = invalid_full_blocks
      ]_vars

\* a meta with a missing transaction was finalized, a lower slot was dropped
C6_Witness ==
    /\ invalid_full_blocks = 1
    /\ Len(ingested) >= 3
    /\ ingested[Len(ingested)].type = "Slot"
    /\ ingested[Len(ingested)].status = "Finalized"
    /\ ingested[Len(ingested)].slot = 2
    /\ \E i \in DOMAIN ingested : ingested[i].type = "Transaction" /\ ingested[i].slot = 1
    /\ DOMAIN transactions = {}
    /\ BlocksOf(published, processed_messages) = {}

\* the non-slot messages the step handed to process_message, in order
Handled ==
    LET collected == CollectBlock(transactions, Received)
    IN  IF /\ Received.type \in {"Transaction", "BlockMeta"}
           /\ BlockComplete(collected, Received.slot)
        THEN <<MessageBlock(collected[Received.slot].meta,
                            SortByIndex(collected[Received.slot].transactions)),
               Received>>
        ELSE <<Received>>

\* C14: after every step the pending Processed batch holds fewer than
\* PROCESSED_MESSAGES_MAX messages; a non-slot message that brings it to
\* PROCESSED_MESSAGES_MAX publishes exactly those messages as one Processed
\* batch in the same step and starts an empty batch; below that a non-slot
\* message publishes nothing.
C14_ProcessedBatchBySize ==
    [][/\ Len(processed_messages') < PROCESSED_MESSAGES_MAX
       /\ (IsReceive /\ Received.type # "Slot") =>
            LET pending == processed_messages \o Handled
            IN  IF Len(pending) >= PROCESSED_MESSAGES_MAX
                THEN /\ published' =
                          Append(published,
                                 Batch("Processed",
                                       SubSeq(pending, 1, PROCESSED_MESSAGES_MAX)))
                     /\ processed_messages' =
                          SubSeq(pending, PROCESSED_MESSAGES_MAX + 1, Len(pending))
                ELSE /\ published' = published
                     /\ processed_messages' = pending
      ]_vars

\* the first batch published is a Processed batch of PROCESSED_MESSAGES_MAX
\* transactions, and a message is pending after it
C14_Witness ==
    /\ published # <<>>
    /\ published[1].commitment = "Processed"
    /\ Len(published[1].messages) = PROCESSED_MESSAGES_MAX
    /\ \A k \in DOMAIN published[1].messages :
          published[1].messages[k] = ingested[k]
    /\ Len(processed_messages) = 1

\* the step is the timer branch
IsTimer == ingested' = ingested

\* m is in a batch published at Processed
OnProcessed(m) ==
    \E j \in DOMAIN published :
        /\ published[j].commitment = "Processed"
        /\ Contains(published[j].messages, m)

\* C15: the timer branch publishes a non-empty pending batch as one Processed
\* batch and empties it, and publishes nothing when the batch is empty; every
\* ingested non-slot message is eventually in a batch published at Processed.
C15_ProcessedBatchByTimer ==
    /\ [][IsTimer =>
            IF processed_messages # <<>>
            THEN /\ published' =
                      Append(published, Batch("Processed", processed_messages))
                 /\ processed_messages' = <<>>
            ELSE /\ published' = published
                 /\ processed_messages' = <<>>
         ]_vars
    /\ \A i \in 1..MaxBatchEvents :
          (Len(ingested) >= i /\ ingested[i].type # "Slot")
             ~> (Len(ingested) >= i /\ OnProcessed(ingested[i]))

\* the timer published a batch of five pending transactions
C15_Witness ==
    /\ Len(ingested) = 5
    /\ published = <<Batch("Processed", ingested)>>
    /\ processed_messages = <<>>

\* ====================================================================
\* Properties of the Subscriber Session
\* ====================================================================
Updates(queue) == SelectSeq(queue, LAMBDA x : x.kind = "Update")

Queued(item) == \E i \in DOMAIN sent : sent[i] = item

\* the Dispatch task is at a try_send that finds the outbound queue full
AtFullQueue ==
    /\ dispatch.pc = "batch"
    /\ get_update(filter, dispatch.batch[dispatch.index])
    /\ TrySend(stream, stream_open) = "Full"

\* the control channel hands the Dispatch task a None
AtControlNone == client_rx # <<>> /\ Head(client_rx).kind = "None"

\* C7: a try_send of an update that finds the outbound queue full enqueues
\* nothing, leaves the send of the `lagged` error to a spawned task and ends
\* the Dispatch task; that task enqueues the error (unless the stream is
\* gone); once the Dispatch task has ended no update is enqueued any more.
C7_LagKillOnFullQueue ==
    [][/\ (AtFullQueue /\ dispatch' # dispatch) =>
            /\ dispatch'.pc = "done"
            /\ exit'
            /\ lagged_task' = "pending"
            /\ sent' = sent
       /\ (lagged_task = "pending" /\ lagged_task' # "pending") =>
            /\ lagged_task' = "done"
            /\ sent' = IF stream_open THEN Append(sent, Error("lagged")) ELSE sent
       /\ dispatch.pc = "done" =>
            /\ dispatch'.pc = "done"
            /\ Updates(sent') = Updates(sent)
      ]_vars

\* the queue filled within the first two batches, the error was enqueued, and
\* a batch was published that the session never received
C7_Witness ==
    /\ dispatch.pc = "done"
    /\ lagged_task = "done"
    /\ Queued(Error("lagged"))
    /\ Len(Updates(sent)) = ChannelCapacity
    /\ cursor < Len(published)
    /\ ~Lagging

\* C8: a receiver more than channel_capacity batches behind receives nothing
\* but Lagged: the Dispatch task handles no batch past the gap, and its
\* receive ends it with the `lagged` error left to a spawned task; a closed
\* and drained bus ends it with no error.
C8_LaggedOrClosedBus ==
    [][/\ cursor' # cursor => (~Lagging /\ cursor' = cursor + 1)
       /\ (dispatch.pc = "select" /\ Lagging /\ dispatch' # dispatch) =>
            /\ dispatch'.pc = "done"
            /\ exit'
            /\ sent' = sent
            /\ lagged_task' = "pending" \/ AtControlNone
       /\ (dispatch.pc = "select" /\ ~broadcast_open /\ cursor = Len(published)
             /\ dispatch' # dispatch) =>
            /\ dispatch'.pc = "done"
            /\ exit'
            /\ sent' = sent
            /\ lagged_task' = lagged_task
      ]_vars

\* the session fell behind the bus before it enqueued anything, and the
\* `lagged` error is the only item of its outbound queue
C8_Witness ==
    /\ dispatch.pc = "done"
    /\ Lagging
    /\ lagged_task = "done"
    /\ sent = <<Error("lagged")>>
    /\ client_rx_open = FALSE

\* C9 as claimed: once the `lagged` error is in the outbound queue, nothing is
\* enqueued after it, whichever task runs.
C9_LaggedErrorIsLast ==
    [][Queued(Error("lagged")) => sent' = sent]_vars

\* C10 as claimed: the reader's failed filter update changes neither the
\* filter nor the control channel, and once its `invalid_argument` error is
\* in the outbound queue no update is enqueued after it.
C10_InvalidFilterEndsSession ==
    [][/\ (reader_pc = "message" /\ reader_pc' = "send" /\ client_rx_open) =>
            (filter' = filter /\ client_rx' = client_rx)
       /\ (reader_pc = "send" /\ reader_pc' # "send") =>
            (filter' = filter /\ client_rx' = client_rx)
       /\ Queued(Error("invalid_argument")) => Updates(sent') = Updates(sent)
      ]_vars

\* the filter sent last on the control channel, or the one in use when every
\* filter sent was received
NewestFilter ==
    LET pending == SelectSeq(client_rx, LAMBDA x : x.kind = "Some")
    IN  IF pending = <<>> THEN filter ELSE pending[Len(pending)].filter

\* C11 as claimed: when the reader task finds the inbound stream ended, it
\* sends None on the control channel of the running Dispatch task.
C11_EofSignalsNone ==
    [][(reader_pc = "message" /\ reader_pc' = "eof" /\ client_rx_open) =>
          client_rx' = Append(client_rx, [kind |-> "None"])
      ]_vars

\* C12 as claimed: the Dispatch task takes a batch from the bus only with the
\* filter the Reader task sent last.
C12_FilterBeforeNextBatch ==
    [][cursor' = cursor + 1 => filter = NewestFilter]_vars

\* where the Dispatch task is in the batch it iterates
Handling == dispatch.pc = "batch"

\* position of an update's message in the batch it was taken from
PositionIn(update) ==
    CHOOSE i \in DOMAIN published[update.batch].messages :
        published[update.batch].messages[i] = update.message

\* C13: the Dispatch task takes the batches of the bus one by one in the
\* order of publication, iterates the batch it took from its first message
\* to its last, and the updates in the outbound queue follow the order of the
\* batches and, within a batch, the order of its messages.
C13_PublicationOrder ==
    /\ Handling =>
          /\ cursor \in DOMAIN published
          /\ dispatch.batch = published[cursor].messages
          /\ published[cursor].commitment = get_commitment_level(filter)
          /\ \A i \in DOMAIN Updates(sent) :
                LET u == Updates(sent)[i]
                IN  u.batch = cursor => PositionIn(u) < dispatch.index
    /\ \A i \in DOMAIN Updates(sent) :
          LET u == Updates(sent)[i]
          IN  /\ u.batch \in 1..cursor
              /\ u.message \in Range(published[u.batch].messages)
    /\ \A i, j \in DOMAIN Updates(sent) :
          LET u == Updates(sent)[i]
              v == Updates(sent)[j]
          IN  i < j => \/ u.batch < v.batch
                       \/ u.batch = v.batch /\ PositionIn(u) < PositionIn(v)

\* updates of two batches, both messages of the second one among them
C13_Witness ==
    /\ Len(Updates(sent)) >= 3
    /\ \E i, j \in DOMAIN Updates(sent) :
          /\ i < j
          /\ Updates(sent)[i].batch < Updates(sent)[j].batch
    /\ LET n == Len(Updates(sent))
       IN  /\ Updates(sent)[n].batch = Updates(sent)[n - 1].batch
           /\ Updates(sent)[n].message.type = "Slot"

\* ====================================================================
\* Properties of the BlockMetaStorage
\* ====================================================================
\* a point query was answered since the storage changed last
Answered == response.request # None

\* the answered query is one of the three that read a block
BlockQuery ==
    /\ Answered
    /\ response.request.method \in {"get_latest_blockhash", "get_block_height", "get_slot"}

\* the commitment of the answered query decodes to the level
Asks(commitment) ==
    \/ response.request.commitment = None /\ commitment = "Processed"
    \/ /\ response.request.commitment # None
       /\ \/ response.request.commitment.value = 0 /\ commitment = "Processed"
          \/ response.request.commitment.value = 1 /\ commitment = "Confirmed"
          \/ response.request.commitment.value = 2 /\ commitment = "Finalized"

\* C18 as claimed: a block query fails with `startup` while the cursor of its
\* commitment is unset, and with `block is not available yet` when the cursor
\* is set and the blocks map has no entry for its slot.
C18_StartupOrNotAvailable ==
    \A commitment \in CommitmentLevel :
        (BlockQuery /\ Asks(commitment)) =>
            LET slot == CursorOf(storage, commitment)
            IN  /\ slot = None => response.result = Error("startup")
                /\ (slot # None /\ slot.value \notin DOMAIN storage.blocks) =>
                      response.result = Error("block is not available yet")

\* C19 as claimed: get_slot succeeds with the cursor of its commitment
\* whenever that cursor is set.
C19_GetSlotUnconditional ==
    \A commitment \in CommitmentLevel :
        (Answered /\ response.request.method = "get_slot" /\ Asks(commitment)) =>
            LET slot == CursorOf(storage, commitment)
            IN  slot # None => response.result = Ok([slot |-> slot.value])

\* C20: a point query without a commitment is answered as the same query
\* with commitment Processed; a commitment that does not decode fails with
\* `unknown`, whatever the storage holds.
C20_DefaultProcessedOrUnknown ==
    Answered =>
        LET request == response.request
        IN  /\ request.commitment = None =>
                  response.result =
                      Respond(storage, [request EXCEPT !.commitment = Some(0)])
            /\ (request.commitment # None /\ request.commitment.value \notin {0, 1, 2}) =>
                  response.result = Error("unknown")

\* get_slot without a commitment answered with the processed slot while the
\* confirmed cursor is at another slot
C20_Witness ==
    /\ Answered
    /\ response.request.method = "get_slot"
    /\ response.request.commitment = None
    /\ response.result.kind = "Ok"
    /\ storage.processed = Some(response.result.value.slot)
    /\ storage.confirmed # None
    /\ storage.confirmed # storage.processed

\* the answered query is is_blockhash_valid
ValidityQuery == Answered /\ response.request.method = "is_blockhash_valid"

\* blockhashes.len()
Registered == Cardinality(DOMAIN storage.blockhashes)

\* the flag of the commitment recorded for the blockhash, false without entry
Recorded(blockhash, commitment) ==
    /\ blockhash \in DOMAIN storage.blockhashes
    /\ LET status == storage.blockhashes[blockhash]
       IN  \/ commitment = "Processed" /\ status.processed
           \/ commitment = "Confirmed" /\ status.confirmed
           \/ commitment = "Finalized" /\ status.finalized

\* C16: while the registry holds fewer than MAX_RECENT_BLOCKHASHES + 32
\* blockhashes, is_blockhash_valid fails with `startup` for every blockhash
\* and every commitment level.
C16_StartupBelowThreshold ==
    \A commitment \in CommitmentLevel :
        (ValidityQuery /\ Asks(commitment)
           /\ Registered < MAX_RECENT_BLOCKHASHES + 32) =>
            response.result = Error("startup")

\* one blockhash short of the threshold, a query for a registered blockhash
\* whose flag is set, at a commitment whose cursor is set
C16_Witness ==
    /\ ValidityQuery
    /\ Registered = MAX_RECENT_BLOCKHASHES + 32 - 1
    /\ Asks("Finalized")
    /\ storage.finalized # None
    /\ Recorded(response.request.blockhash, "Finalized")
    /\ response.result = Error("startup")

\* C17 as claimed: with at least MAX_RECENT_BLOCKHASHES + 32 blockhashes
\* registered, is_blockhash_valid answers with the cursor of the commitment
\* and the flag recorded for the blockhash.
C17_ValidAndCursor ==
    \A commitment \in CommitmentLevel :
        (ValidityQuery /\ Asks(commitment)
           /\ Registered >= MAX_RECENT_BLOCKHASHES + 32) =>
            /\ CursorOf(storage, commitment) # None
            /\ response.result =
                  Ok([slot |-> CursorOf(storage, commitment).value,
                      valid |-> Recorded(response.request.blockhash, commitment)])

\* C17, amended: the same when the cursor of the commitment is set, and
\* `startup` when it is not; right after the writer handled Slot(K, c) with
\* the block of K cached under blockhash h, the answer for (h, c) is
\* {valid: true, slot: K}.
C17_ValidAndCursorWhenSet ==
    \A commitment \in CommitmentLevel :
        (ValidityQuery /\ Asks(commitment)
           /\ Registered >= MAX_RECENT_BLOCKHASHES + 32) =>
            /\ IF CursorOf(storage, commitment) = None
               THEN response.result = Error("startup")
               ELSE response.result =
                      Ok([slot |-> CursorOf(storage, commitment).value,
                          valid |-> Recorded(response.request.blockhash, commitment)])
            /\ (/\ written.type = "Slot"
                /\ written.status = commitment
                /\ written.slot \in DOMAIN storage.blocks
                /\ storage.blocks[written.slot].blockhash = response.request.blockhash) =>
                  response.result = Ok([slot |-> written.slot, valid |-> TRUE])

\* the registry reached the threshold with a new blockhash, and the query for
\* it right after its Slot message is answered valid at that slot
C17_Witness ==
    /\ ValidityQuery
    /\ Registered = MAX_RECENT_BLOCKHASHES + 32
    /\ written.type = "Slot"
    /\ written.slot = WarmTop + 1
    /\ Asks(written.status)
    /\ response.request.blockhash = WarmTop + 1
    /\ response.result = Ok([slot |-> WarmTop + 1, valid |-> TRUE])

\* the writer task handled a message in this step
Wrote == applied' = applied + 1

\* the step handled a Message::Slot of the status
WroteSlot(status) ==
    Wrote /\ written'.type = "Slot" /\ written'.status = status

\* C21 as claimed: right after a Finalized Message::Slot for S, blocks holds
\* exactly its entries with slot >= S - 3, the registry holds no entry with
\* slot < S - (MAX_RECENT_BLOCKHASHES + 32) and has kept every entry at or
\* above it; any other message evicts nothing.
C21_RetentionOnFinalized ==
    [][Wrote =>
          IF WroteSlot("Finalized")
          THEN LET S == written'.slot
               IN  /\ DOMAIN storage'.blocks =
                         {slot \in DOMAIN storage.blocks : slot >= S - KEEP_SLOTS}
                   /\ \A h \in DOMAIN storage'.blockhashes :
                         storage'.blockhashes[h].slot >=
                            S - (MAX_RECENT_BLOCKHASHES + 32)
                   /\ \A h \in DOMAIN storage.blockhashes :
                         storage.blockhashes[h].slot >=
                            S - (MAX_RECENT_BLOCKHASHES + 32) =>
                               h \in DOMAIN storage'.blockhashes
          ELSE /\ DOMAIN storage.blocks \subseteq DOMAIN storage'.blocks
               /\ DOMAIN storage.blockhashes \subseteq DOMAIN storage'.blockhashes
      ]_vars

\* C22 as claimed: a cursor that is set never moves to a smaller slot.
C22_CursorsMonotone ==
    [][\A commitment \in CommitmentLevel :
          LET held == CursorOf(storage, commitment)
              next == CursorOf(storage', commitment)
          IN  held # None => (next # None /\ next.value >= held.value)
      ]_vars

\* C22, amended: a cursor that is set stays set, and it moves to a smaller
\* slot exactly in the steps that handle a Message::Slot of its status for a
\* slot below it.
C22_CursorBackwardOnlyOutOfOrder ==
    [][\A commitment \in CommitmentLevel :
          LET held == CursorOf(storage, commitment)
              next == CursorOf(storage', commitment)
          IN  held # None =>
                /\ next # None
                /\ next.value < held.value <=>
                      (WroteSlot(commitment) /\ written'.slot < held.value)
      ]_vars

\* the processed cursor went back: the slot handled last has no block, and the
\* blockhash of a slot above it carries the processed flag, which only a
\* Processed Message::Slot for a slot with that blockhash sets
C22_Witness ==
    /\ written.type = "Slot"
    /\ written.status = "Processed"
    /\ storage.processed = Some(written.slot)
    /\ written.slot \notin DOMAIN storage.blocks
    /\ \E slot \in DOMAIN storage.blocks :
          /\ slot > written.slot
          /\ storage.blocks[slot].blockhash \in DOMAIN storage.blockhashes
          /\ storage.blockhashes[storage.blocks[slot].blockhash].slot = slot
          /\ storage.blockhashes[storage.blocks[slot].blockhash].processed

\* the registry after the blockhash of blocks[slot] got the flag of status
Upserted(st, slot, status) ==
    LET h == st.blocks[slot].blockhash
        held == IF h \in DOMAIN st.blockhashes
                THEN st.blockhashes[h]
                ELSE [slot |-> slot, confirmed |-> FALSE, finalized |-> FALSE,
                      processed |-> FALSE]
        flagged == [slot |-> held.slot,
                    confirmed |-> held.confirmed \/ status = "Confirmed",
                    finalized |-> held.finalized \/ status = "Finalized",
                    processed |-> held.processed \/ status = "Processed"]
    IN  [k \in DOMAIN st.blockhashes \cup {h} |->
            IF k = h THEN flagged ELSE st.blockhashes[k]]

\* C30: a Message::Slot sets the cursor of its status to its slot and leaves
\* the other two; with blocks[slot] cached under blockhash h, the registry
\* entry of h is created as (slot, false, false, false) when absent and gets
\* the flag of the status, its other flags unchanged; without blocks[slot]
\* the registry is unchanged. After a Finalized one the registry holds what
\* the retention sweep kept of that.
C30_SlotSetsCursorAndFlag ==
    [][\A status \in CommitmentLevel :
          WroteSlot(status) =>
              LET slot == written'.slot
                  registry == IF slot \in DOMAIN storage.blocks
                              THEN Upserted(storage, slot, status)
                              ELSE storage.blockhashes
              IN  /\ CursorOf(storage', status) = Some(slot)
                  /\ \A other \in CommitmentLevel \ {status} :
                        CursorOf(storage', other) = CursorOf(storage, other)
                  /\ IF status = "Finalized"
                     THEN \A h \in DOMAIN storage'.blockhashes :
                             /\ h \in DOMAIN registry
                             /\ storage'.blockhashes[h] = registry[h]
                     ELSE storage'.blockhashes = registry
      ]_vars

\* a Confirmed Message::Slot registered the blockhash of its cached block,
\* with the processed cursor at another slot
C30_Witness ==
    /\ written.type = "Slot"
    /\ written.status = "Confirmed"
    /\ written.slot \in DOMAIN storage.blocks
    /\ storage.confirmed = Some(written.slot)
    /\ storage.processed # None
    /\ storage.processed # storage.confirmed
    /\ LET h == storage.blocks[written.slot].blockhash
       IN  /\ h \in DOMAIN storage.blockhashes
           /\ storage.blockhashes[h] =
                 [slot |-> written.slot, confirmed |-> TRUE, finalized |-> FALSE,
                  processed |-> FALSE]

\* ====================================================================
\* Properties of the per-slot accumulator (messages)
\* ====================================================================
\* the step received a Message::Slot of the status
ReceivedSlot(status) ==
    IsReceive /\ Received.type = "Slot" /\ Received.status = status

\* the non-null messages of a per-slot sequence, in its order
NonNull(vec) == SelectSeq(vec, LAMBDA x : x # None)

\* the non-null messages recorded for the slot, none without an entry
RecordedFor(msgs, slot) ==
    IF slot \in DOMAIN msgs THEN NonNull(msgs[slot].vec) ELSE <<>>

\* the slots whose entry the step removed from the accumulator
Evicted == DOMAIN messages \ DOMAIN messages'

\* the message is in a Finalized batch published so far
StreamedFinalized(pub, m) ==
    \E j \in DOMAIN pub :
        pub[j].commitment = "Finalized" /\ Contains(pub[j].messages, m)

\* C26 as claimed: the messages of an entry that leaves the accumulator have
\* all appeared in a Finalized batch.
C26_EvictedOnlyAfterFinalized ==
    [][\A slot \in Evicted :
          \A m \in Range(NonNull(messages[slot].vec)) :
              StreamedFinalized(published', m)
      ]_vars

\* C26, amended: an entry leaves the accumulator only in the step that
\* handles a Finalized Message::Slot for its slot or a later one; the entry
\* of that very slot is the payload of the Finalized batch of the step, and
\* the entries below it are dropped whether streamed or not.
C26_EvictedByFinalizedAtOrAbove ==
    [][\A slot \in Evicted :
          /\ ReceivedSlot("Finalized")
          /\ slot <= Received.slot
          /\ slot = Received.slot =>
                published'[Len(published')] =
                    Batch("Finalized", Append(NonNull(messages[slot].vec), Received))
      ]_vars

\* a message of slot s was recorded and a Finalized Message::Slot for a later
\* slot came after it: the entry of s is gone and no Finalized batch holds
\* the message
C26_Witness ==
    \E i \in DOMAIN ingested, f \in DOMAIN ingested :
        /\ i < f
        /\ ingested[i].type \in {"Account", "Transaction"}
        /\ ingested[f].type = "Slot"
        /\ ingested[f].status = "Finalized"
        /\ ingested[f].slot > ingested[i].slot
        /\ ingested[i].slot \notin DOMAIN messages
        /\ ~StreamedFinalized(published, ingested[i])
        /\ StreamedFinalized(published, ingested[f])

\* C27: a Finalized Message::Slot for S removes every entry with key <= S
\* and leaves the entries above S as they are; the non-null messages of the
\* entry of S, followed by the Message::Slot, are the Finalized batch.
C27_FinalizedEvictsUpToSlot ==
    [][ReceivedSlot("Finalized") =>
          LET S == Received.slot
          IN  /\ DOMAIN messages' = {slot \in DOMAIN messages : slot > S}
              /\ \A slot \in DOMAIN messages' : messages'[slot] = messages[slot]
              /\ published'[Len(published')] =
                    Batch("Finalized", Append(RecordedFor(messages, S), Received))
      ]_vars

\* accounts of slots 1 and 2 were recorded and slot 1 was finalized: the
\* entry of slot 2 alone is left, as it was, and the Finalized batch holds the
\* account of slot 1 before the Message::Slot
C27_Witness ==
    /\ Len(ingested) = 3
    /\ ingested[3] = MessageSlot(1, "Finalized", 3)
    /\ \E i \in 1..2 :
          /\ ingested[i].type = "Account"
          /\ ingested[i].slot = 1
          /\ ingested[3 - i].type = "Account"
          /\ ingested[3 - i].slot = 2
          /\ DOMAIN messages = {2}
          /\ messages[2].vec = <<ingested[3 - i]>>
          /\ published[Len(published)] =
                Batch("Finalized", <<ingested[i], ingested[3]>>)

\* C28: a Confirmed Message::Slot for S leaves the accumulator as it is and
\* its Confirmed batch is the non-null messages of the entry of S followed
\* by the Message::Slot; a Processed Message::Slot leaves the accumulator as
\* it is too, and its Confirmed and Finalized batches hold it alone.
C28_ConfirmedClones ==
    [][/\ ReceivedSlot("Confirmed") =>
             /\ messages' = messages
             /\ Len(NewBatches) = 3
             /\ NewBatches[2] =
                   Batch("Confirmed",
                         Append(RecordedFor(messages, Received.slot), Received))
       /\ ReceivedSlot("Processed") =>
             /\ messages' = messages
             /\ Len(NewBatches) = 3
             /\ NewBatches[2] = Batch("Confirmed", <<Received>>)
             /\ NewBatches[3] = Batch("Finalized", <<Received>>)
      ]_vars

\* slot 1 was confirmed twice after an account of it was replaced: both
\* Confirmed batches hold the replacing account, and the entry is still there
C28_Witness ==
    /\ Len(ingested) = 4
    /\ ingested[1].type = "Account"
    /\ ingested[2].type = "Account"
    /\ ingested[3] = MessageSlot(1, "Confirmed", 3)
    /\ ingested[4] = MessageSlot(1, "Confirmed", 4)
    /\ 1 \in DOMAIN messages
    /\ messages[1].vec = <<None, ingested[2]>>
    /\ published[Len(published) - 1] = Batch("Confirmed", <<ingested[2], ingested[4]>>)
    /\ Contains(published, Batch("Confirmed", <<ingested[2], ingested[3]>>))

\* the entry of the slot, empty without one
EntryOf(msgs, slot) ==
    IF slot \in DOMAIN msgs THEN msgs[slot] ELSE [map |-> EmptyMap, vec |-> <<>>]

\* seq is `prefix` followed by nothing but Block messages
ExtendsByBlocks(seq, prefix) ==
    /\ Len(seq) >= Len(prefix)
    /\ SubSeq(seq, 1, Len(prefix)) = prefix
    /\ \A i \in (Len(prefix) + 1)..Len(seq) : seq[i].type = "Block"

EnqueuedUpdate ==
    /\ Len(sent') = Len(sent) + 1
    /\ sent'[Len(sent')].kind = "Update"

\* the step took a batch from the bus
TookBatch == cursor' = cursor + 1

\* C25: an update is enqueued only for a message of a batch whose commitment
\* is that of the filter client_loop holds, a message the filter yields an
\* update for, and no message of a batch is enqueued twice; taking a batch of
\* another commitment enqueues nothing and changes nothing of the session
\* but the receiver's position on the bus.
C25_OwnCommitmentOnly ==
    [][/\ EnqueuedUpdate =>
             LET update == sent'[Len(sent')]
                 batch == published[update.batch]
             IN  /\ batch.commitment = filter.commitment
                 /\ filter' = filter
                 /\ update.message \in Range(batch.messages)
                 /\ update.message.type \in filter.accepts
                 /\ \A i \in DOMAIN sent : sent[i] # update
       /\ (TookBatch /\ published[cursor'].commitment # filter.commitment) =>
             /\ dispatch' = dispatch
             /\ dispatch.pc = "select"
             /\ UNCHANGED <<filter, client_rx, client_rx_open, stream, stream_open,
                            sent, delivered, lagged_task, exit, broadcast_open,
                            ping_pc, pings, reader_pc, requests>>
      ]_vars

\* the one filter the client sent asks for Confirmed: the account of the
\* Confirmed batch was enqueued, and the Processed batch taken after it left
\* nothing on the queue
C25_Witness ==
    /\ requests = 1
    /\ filter = Filter("Confirmed", {"Account"})
    /\ Len(published) = 3
    /\ published[2].commitment = "Confirmed"
    /\ published[3].commitment = "Processed"
    /\ cursor = 3
    /\ dispatch.pc = "select"
    /\ \E i \in DOMAIN sent : sent[i].kind = "Update" /\ sent[i].batch = 2
    /\ \A i \in DOMAIN sent : sent[i].kind = "Update" => sent[i].batch # 3

\* ====================================================================
\* Properties of the choice of a producer
\* ====================================================================
Selected == selection.result # None

\* the locks listed by etcd
Living == queries.living_producers.value

\* the producers whose row of producer_info has the requested level
WithCommitmentLevel ==
    {id \in ProducerIds : queries.producer_info.value[id] = selection.commitment_level}

\* the producers with a row of slot_producer_seen_mv in the requested range
Covering ==
    {id \in ProducerIds :
        \E slot \in queries.slot_producer_seen.value[id] :
            /\ selection.opt_slot_range.value[1] <= slot
            /\ slot <= selection.opt_slot_range.value[2]}

\* the queries the call makes before it counts the consumers were answered
Listed ==
    /\ queries.living_producers.kind = "Ok"
    /\ queries.producer_info.kind = "Ok"
    /\ selection.opt_slot_range # None => queries.slot_producer_seen.kind = "Ok"

Candidates ==
    IF selection.opt_slot_range = None
    THEN Living \cap WithCommitmentLevel
    ELSE Living \cap WithCommitmentLevel \cap Covering

Assigned(id) == CountOf(queries.consumer_count.value, id)

\* C23: when its queries are answered, get_producer_id_with_least_assigned_consumer
\* returns a producer that is living, has the requested commitment level and,
\* when a slot range is given, has seen a slot of the range, with the least
\* number of assigned consumers (0 without a row) among those producers; it
\* fails with NoActiveProducer when no producer is living, otherwise with
\* ImpossibleCommitmentLevel when no producer has the level, otherwise with
\* ImpossibleTimelineSelection when no living producer has it, otherwise with
\* ImpossibleSlotOffset when none of those has seen a slot of the range
C23_LeastAssignedLivingProducer ==
    (Selected /\ Listed) =>
        /\ Living = {} <=> selection.result = Error("NoActiveProducer")
        /\ (Living # {} /\ WithCommitmentLevel = {})
              <=> selection.result = Error("ImpossibleCommitmentLevel")
        /\ (Living # {} /\ WithCommitmentLevel # {} /\ Living \cap WithCommitmentLevel = {})
              <=> selection.result = Error("ImpossibleTimelineSelection")
        /\ (Living \cap WithCommitmentLevel # {} /\ Candidates = {})
              <=> selection.result = Error("ImpossibleSlotOffset")
        /\ (Candidates # {} /\ queries.consumer_count.kind = "Ok")
              <=> selection.result.kind = "Ok"
        /\ selection.result.kind = "Ok" =>
              /\ selection.result.value \in Candidates
              /\ \A other \in Candidates :
                    Assigned(selection.result.value) <= Assigned(other)

\* a producer was chosen for a slot range over a smaller living producer of
\* the same level and range that has a consumer, and over a producer without
\* consumers that is not living
C23_Witness ==
    /\ Selected
    /\ Listed
    /\ selection.opt_slot_range # None
    /\ selection.result.kind = "Ok"
    /\ \E other \in Candidates :
          /\ other < selection.result.value
          /\ Assigned(other) > Assigned(selection.result.value)
    /\ \E dead \in (WithCommitmentLevel \cap Covering) \ Living : Assigned(dead) = 0

\* ====================================================================
\* Properties of the dead signal
\* ====================================================================
\* polling the signal gives Ready: it was sent, or tx is gone
Resolved == signal_tx \in {"sent", "dropped"}

\* the call returned its signal and the holder has not dropped it
Held == monitor_pc = "returned" /\ signal # "dropped"

\* the lock was not there at the lookup, or the watch recorded its deletion
Death == get_count = 0 \/ events > 0

\* C24 as stated: the signal resolves for a death only, at once when the
\* lock is absent at the lookup and otherwise on the first Delete event of
\* the lock
C24_ResolvesOnDeleteOnly == (Held /\ Resolved) => Death

\* C24: the signal is sent at most once and for a death only, before the call
\* returns when the lock is absent at the lookup and otherwise by the first
\* watch response with a Delete event; it resolves without being sent only
\* when the watch stream ended or failed; and whenever the lock is absent
\* after the call returned, the held signal resolves
C24_DeadSignal ==
    /\ [](sends <= 1)
    /\ [](signal_tx = "sent" <=> sends = 1)
    /\ [](signal_tx = "sent" => Death)
    /\ []((monitor_pc = "returned" /\ get_count = 0) => (signal_tx = "sent" /\ task_pc = "none"))
    /\ []((Held /\ signal_tx = "dropped") => watch_state = "cancelled" /\ task_pc = "done")
    /\ [][(Held /\ signal_tx' = "dropped" /\ signal_tx # "dropped")
             => (TaskStream /\ Head(watch_stream) = StreamEnd)]_vars
    /\ [][(get_count = 1 /\ signal_tx' = "sent" /\ signal_tx # "sent")
             => (TaskStream /\ Head(watch_stream) >= 1)]_vars
    /\ (Held /\ ~lock) ~> (Resolved \/ signal = "dropped")

\* the lock was there at the lookup and was deleted twice afterwards: the
\* task sent the signal once, and its holder got Ok(())
C24_Witness ==
    /\ get_count = 1
    /\ deletes = 2
    /\ events = 2
    /\ task_pc = "done"
    /\ sends = 1
    /\ signal = "ok"

\* ====================================================================
\* Properties of the retention thresholds
\* ====================================================================
\* C37 as claimed: a Finalized Message::Slot for S leaves the writer task
\* running and evicts no block with slot >= S - 3 and no blockhash with slot
\* >= S - (MAX_RECENT_BLOCKHASHES + 32), the differences taken without
\* wrapping, also when S is below 3 or below MAX_RECENT_BLOCKHASHES + 32.
C37_ThresholdsNeverUnderflow ==
    [][WroteSlot("Finalized") =>
          LET S == written'.slot
          IN  /\ writer_alive'
              /\ \A slot \in DOMAIN storage.blocks :
                    slot >= S - KEEP_SLOTS => slot \in DOMAIN storage'.blocks
              /\ \A h \in DOMAIN storage.blockhashes :
                    storage.blockhashes[h].slot >= S - (MAX_RECENT_BLOCKHASHES + 32) =>
                        h \in DOMAIN storage'.blockhashes
      ]_vars

\* the registry is warm for the commitment: is_blockhash_valid has what it
\* asks for before it answers
Warm(commitment) ==
    /\ Registered >= MAX_RECENT_BLOCKHASHES + 32
    /\ CursorOf(storage, commitment) # None

\* C38 as claimed: once the registry holds MAX_RECENT_BLOCKHASHES + 32
\* blockhashes and the cursor of a commitment is set, no message the writer
\* handles brings is_blockhash_valid for that commitment back to `startup`.
C38_WarmupOneWay ==
    [][\A commitment \in CommitmentLevel, blockhash \in WarmBlockhashes :
          Warm(commitment) =>
              is_blockhash_valid(storage', blockhash, Some(as_i32(commitment)))
                  # Error("startup")
      ]_vars

\* ====================================================================
\* Properties of the queue between the loop and the writer task
\* ====================================================================
\* matches!(message, Message::Slot(_) | Message::BlockMeta(_))
IsCacheMessage(m) == m.type \in {"Slot", "BlockMeta"}

\* the step gave the writer task a message of another variant
OtherArrived == written' \in OtherMessages /\ written' # written

\* C31: blocks_meta_tx was given one clone of each ingested Message::Slot and
\* Message::BlockMeta, in the order of ingestion, and nothing else; the
\* writer task takes them in that order; and a message of another variant at
\* the writer task leaves blocks, blockhashes and the three cursors as they
\* were and the task running.
C31_OnlySlotAndBlockMeta ==
    [][/\ blocks_meta_tx' = SelectSeq(ingested', IsCacheMessage)
       /\ Wrote =>
             /\ written'.type = NextForwarded.type
             /\ written'.slot = NextForwarded.slot
             /\ written'.type = "Slot" => written' = NextForwarded
       /\ OtherArrived => (storage' = storage /\ writer_alive' /\ ~Wrote)
       /\ storage' # storage => Wrote
      ]_vars

\* an Account was ingested between a BlockMeta and a Slot, the writer task
\* took both of these, and then a Block arrived at it
C31_Witness ==
    /\ Len(ingested) = 3
    /\ ingested[1].type = "BlockMeta"
    /\ ingested[2].type = "Account"
    /\ ingested[3].type = "Slot"
    /\ Len(blocks_meta_tx) = 2
    /\ applied = 2
    /\ written.type = "Block"
    /\ writer_alive
    /\ storage.blocks # EmptyMap
    /\ storage.processed # None

\* ====================================================================
\* Properties of the ping task and of the exit flag
\* ====================================================================
\* the ping task tried to send a Ping in this step
Pinged == pings' = pings + 1

\* Some(None) is queued on the control channel
NoneQueued == \E i \in 1..Len(client_rx) : client_rx[i].kind = "None"

\* C32: a ping attempt takes one step whatever the state of the outbound
\* queue; on a full queue it changes nothing and the ping task goes on, and
\* it never ends client_loop or sets the exit flag itself; on a closed queue
\* it sends None on the control channel and the ping task returns, and
\* client_loop returns afterwards.
C32_PingNeverBlocksNorKills ==
    /\ [][Pinged =>
             /\ dispatch' = dispatch /\ exit' = exit /\ lagged_task' = lagged_task
             /\ TrySend(stream, stream_open) = "Ok" =>
                   (stream' = Append(stream, Ping) /\ ping_pc' = "check"
                      /\ client_rx' = client_rx)
             /\ TrySend(stream, stream_open) = "Full" =>
                   (stream' = stream /\ sent' = sent /\ ping_pc' = "check"
                      /\ client_rx' = client_rx)
             /\ TrySend(stream, stream_open) = "Closed" =>
                   /\ stream' = stream
                   /\ ping_pc' = "done"
                   /\ client_rx_open => client_rx' = Append(client_rx, [kind |-> "None"])
       ]_vars
    /\ [][ping_pc = "sleep" => ENABLED PingAttempt]_vars
    /\ NoneQueued ~> dispatch.pc = "done"

\* the ping found the outbound queue closed while client_loop was still
\* running, and client_loop has returned since
C32_Witness ==
    /\ pings = 1
    /\ ping_pc = "done"
    /\ ~stream_open
    /\ exit
    /\ cursor = 0
    /\ dispatch.pc = "done"
    /\ reader_pc # "done"
    /\ lagged_task = "none"
    /\ Len(sent) = 0

\* the ping task has no attempt ahead of it
PingIdle == ping_pc \in {"check", "done"}

\* C33: client_loop returns with the exit flag set, whatever made it return,
\* and nothing else sets the flag; once the flag is set the ping task does
\* not go to sleep again, so it makes at most the attempt it was sleeping
\* for, and it returns; the reader task returns at its next check of the flag.
C33_ExitFlagStopsSiblings ==
    /\ [][/\ dispatch'.pc = "done" => exit'
          /\ (exit' /\ ~exit) => (dispatch'.pc = "done" /\ dispatch.pc # "done")
          /\ (exit /\ PingIdle) => (PingIdle' /\ ~Pinged)
          /\ (exit /\ Pinged) => PingIdle'
          /\ (exit /\ ping_pc = "check" /\ ping_pc' # "check") => ping_pc' = "done"
          /\ (exit /\ reader_pc = "check" /\ reader_pc' # "check") => reader_pc' = "done"
       ]_vars
    /\ exit ~> ping_pc = "done"

\* client_loop returned on a lagged receiver while the ping task was asleep
\* and the reader task waited for a message: the ping task made one more
\* attempt and returned, and the reader task returned at its check
C33_Witness ==
    /\ dispatch.pc = "done"
    /\ exit
    /\ lagged_task # "none"
    /\ pings = MaxPings + 1
    /\ ping_pc = "done"
    /\ reader_pc = "done"
    /\ requests = 1

\* ------------------------------------------------ the loop and its subscribers
BusIngest == ingested' # ingested

BusFlush == ingested' = ingested /\ published' # published

QueueFull == stream_open /\ Len(stream) >= ChannelCapacity

\* C34: the Broadcast Loop never blocks on subscribers.  With a session on the
\* receiving end of the broadcast, whatever the session's state (returned,
\* lagging behind, outbound queue full, receiver dropped): every message can be
\* ingested and the timer branch can be taken; a step that ingests a message
\* is the step the loop makes on its own state and that message, and a step
\* that publishes without ingesting is the timer flush; no step of the session
\* touches transactions, messages, processed_messages or published.
C34_LoopNeverBlocks ==
    /\ [](/\ Len(ingested) < MaxBusEvents =>
                /\ ENABLED BusSlot
                /\ ENABLED BusAccount
                /\ ENABLED BusTransaction
                /\ ENABLED BusBlockMeta
          /\ ENABLED ProcessedSleep
          /\ processed_messages # <<>> =>
                ENABLED (ProcessedSleep /\ published' # published))
    /\ [][ /\ BusIngest =>
                  /\ Receive(ingested'[Len(ingested')], MaxBusEvents)
                  /\ UNCHANGED sessionVars
           /\ BusFlush =>
                  /\ ProcessedSleep
                  /\ UNCHANGED sessionVars
           /\ sessionVars' # sessionVars => UNCHANGED loopVars ]_vars

\* the loop went on to its last message past a session that is behind by more
\* than the channel holds and whose outbound queue is full
C34_Witness ==
    /\ QueueFull
    /\ Lagging
    /\ cursor = 2
    /\ stream[2].kind = "Update"
    /\ Len(ingested) = MaxBusEvents
    /\ ingested[MaxBusEvents].type = "Slot"
    /\ Len(published) = 5

\* ------------------------------------------------------ the Processed stream
\* the messages of the Processed batches of `pub`, in publication order
RECURSIVE ProcessedOf(_)
ProcessedOf(pub) ==
    IF pub = <<>> THEN <<>>
    ELSE ProcessedOf(SubSeq(pub, 1, Len(pub) - 1)) \o
         (IF pub[Len(pub)].commitment = "Processed"
          THEN pub[Len(pub)].messages ELSE <<>>)

\* C35: the Processed batches in publication order, followed by the pending
\* batch, are the messages that went through process_message, in that order
\* and once each.  Batches are only ever appended; a step that ingests a
\* message extends the stream by the synthesized Block, if the message
\* completed one, and then the message, neither of which was in the stream;
\* the timer moves the pending batch, whole and in order, to the published
\* ones; no batch on any channel is empty.
C35_ProcessedStreamInOrder ==
    [][ /\ SubSeq(published', 1, Len(published)) = published
        /\ ProcessedOf(NewBatches) \o processed_messages' =
              processed_messages \o (IF IsReceive THEN Handled ELSE <<>>)
        /\ IsReceive =>
              LET handled == Handled
              IN  /\ \A k \in DOMAIN handled :
                        /\ ~OnProcessed(handled[k])
                        /\ ~Contains(processed_messages, handled[k])
                  /\ Len(handled) = 2 => handled[1] # handled[2]
        /\ IsTimer => processed_messages' = <<>>
        /\ \A j \in DOMAIN NewBatches : NewBatches[j].messages # <<>> ]_vars

\* a Block stands right before the Transaction that completed it in a batch
\* the timer published, a later message was published by a slot message, and
\* another is pending
C35_Witness ==
    /\ Len(ingested) = MaxEvents
    /\ Len(published) = 4
    /\ published[1].commitment = "Processed"
    /\ \E k \in DOMAIN published[1].messages :
          /\ published[1].messages[k].type = "Block"
          /\ k < Len(published[1].messages)
          /\ published[1].messages[k + 1] = ingested[2]
          /\ ingested[2].type = "Transaction"
    /\ published[2].messages = <<ingested[3]>>
    /\ processed_messages = <<ingested[4]>>

\* ------------------------------------------------------- one Block per slot
\* the BlockMeta messages ingested for `slot`
MetasOf(slot) ==
    {i \in DOMAIN ingested : ingested[i].type = "BlockMeta" /\ ingested[i].slot = slot}

\* the places of the Processed stream, pending batch included, that hold a
\* Block of `slot`
BlockPlaces(slot) ==
    LET processed == ProcessedOf(published) \o processed_messages
    IN  {k \in DOMAIN processed :
            processed[k].type = "Block" /\ processed[k].slot = slot}

\* C36: a slot for which at most one BlockMeta was ingested has at most one
\* Block: one Block message at most was built for it, and it went through
\* process_message once.
C36_OneBlockPerSlot ==
    \A slot \in Slots :
        Cardinality(MetasOf(slot)) <= 1 =>
            /\ Cardinality({b \in BlocksOf(published, processed_messages) :
                               b.slot = slot}) <= 1
            /\ Cardinality(BlockPlaces(slot)) <= 1

\* the only BlockMeta of slot 1 was completed by a transaction; the slot was
\* finalized and another transaction of the slot came after that
C36_Witness ==
    /\ Len(ingested) = MaxEvents
    /\ MetasOf(1) = {1}
    /\ ingested[1].executed_transaction_count = 1
    /\ ingested[2].type = "Transaction" /\ ingested[2].slot = 1
    /\ Cardinality(BlockPlaces(1)) = 1
    /\ ingested[3].type = "Slot" /\ ingested[3].slot = 1
    /\ ingested[3].status = "Finalized"
    /\ ingested[4].type = "Transaction" /\ ingested[4].slot = 1
    /\ 1 \in DOMAIN transactions

\* ------------------------------------------------- the entries of `messages`
\* the map of the entry holds (write_version, index) for pubkey
Indexed(entry, pubkey, write_version, index) ==
    /\ pubkey \in DOMAIN entry.map
    /\ entry.map[pubkey] = <<write_version, index>>

\* the vec of the entry holds at `index` (counted from 0) the only Account
\* message of pubkey it holds; the message has write_version, it is one of
\* `since` and none of `since` has a greater one
Standing(entry, since, pubkey, write_version, index) ==
    /\ index + 1 \in DOMAIN entry.vec
    /\ entry.vec[index + 1].type = "Account"
    /\ entry.vec[index + 1].pubkey = pubkey
    /\ entry.vec[index + 1].write_version = write_version
    /\ \A k \in DOMAIN entry.vec :
          (entry.vec[k].type = "Account" /\ entry.vec[k].pubkey = pubkey) => k = index + 1
    /\ entry.vec[index + 1] \in since
    /\ \A e \in since : e.write_version <= write_version

\* C39: in every entry of `messages`, the map holds (W, i) for a pubkey exactly
\* when place i of the vec holds the only Account message of the pubkey left
\* in the vec, that message has write_version W, and W is the greatest
\* write_version ingested for the slot and the pubkey since the entry was
\* created (since the slot's entry was last evicted).  The places looked at
\* are those of the vec, the one past its end and the one the map names.
C39_ArenaIndexConsistent ==
    \A slot \in DOMAIN messages, pubkey \in Pubkeys :
        LET entry == messages[slot]
            since == AccountsOf(ingested, slot, pubkey, FromEviction(slot))
            places == 0..Len(entry.vec) \cup
                      (IF pubkey \in DOMAIN entry.map THEN {entry.map[pubkey][2]} ELSE {})
        IN  \A write_version \in WriteVersions, index \in places :
                Indexed(entry, pubkey, write_version, index)
                    <=> Standing(entry, since, pubkey, write_version, index)

\* write_versions 1, 2 and 2 again of account P and then account Q, all of slot 1:
\* the first place of the vec is vacated, P is at place 1 and Q at place 2
C39_Witness ==
    /\ Len(ingested) = MaxEvents
    /\ 1 \in DOMAIN messages
    /\ messages[1].vec = <<None, ingested[2], ingested[4]>>
    /\ ingested[3].type = "Account"
    /\ ingested[3].pubkey = "P"
    /\ ingested[3].write_version = 2
    /\ Indexed(messages[1], "P", 2, 1)
    /\ Indexed(messages[1], "Q", 1, 2)
====
